---- MODULE Spec2Model ----
(***************************************************************************)
(* A model of the suite orchestrator of src/table_dsl.go (package          *)
(* internal): the phase state machine and tree construction (PushNode,     *)
(* BuildTree, Run), and the execution of specs and hooks (runSpecs,        *)
(* runSpec, reportAfterEach, runSuiteNode, runNode).                       *)
(***************************************************************************)
EXTENDS Naturals, Integers, Sequences, FiniteSets, TLC

VARIABLES
    phase,                \* suite.phase
    tree,                 \* suite.tree
    topLevelContainers,   \* suite.topLevelContainers
    suiteNodes,           \* suite.suiteNodes
    lastCall,             \* the last call made on the suite and what it returned
    nCalls,               \* number of calls made on the suite so far
    handler,              \* each worker's interrupt handler: status and current channel
    failer,               \* the failure recorder shared by all node bodies
    main,                 \* the caller's side of the runNode call in progress
    tasks,                \* the task spawned by each runNode call so far
    cfg,                  \* suiteConfig of the run
    specs,                \* the specs handed to runSpecs
    wk,                   \* each worker's runSpecs call: position, locals, report
    srv                   \* the coordination service of a parallel run

buildVars == <<phase, tree, topLevelContainers, suiteNodes, lastCall, nCalls>>
nodeVars == <<failer, main, tasks>>
runVars == <<cfg, specs, wk, srv>>

vars ==
    <<phase, tree, topLevelContainers, suiteNodes, lastCall, nCalls,
      handler, failer, main, tasks, cfg, specs, wk, srv>>

(***************************************************************************)
(* Bounds                                                                  *)
(***************************************************************************)
\* Calls made on a suite (PushNode, BuildTree, Run) in one behaviour.
MaxCalls == 3
\* Interrupt signals delivered in one behaviour.
MaxInterrupts == 1
\* Calls of runNode made one after the other on the shared failure recorder.
MaxNodeRuns == 2
\* Worker processes of a parallel run.
NumWorkers == 2

Workers == 1 .. NumWorkers

(***************************************************************************)
(* Phases and node types                                                   *)
(***************************************************************************)
PhaseBuildTopLevel == "BuildTopLevel"
PhaseBuildTree == "BuildTree"
PhaseRun == "Run"

NodeTypes ==
    {"Container", "It", "BeforeEach", "JustBeforeEach", "AfterEach",
     "JustAfterEach", "BeforeSuite", "AfterSuite", "SynchronizedBeforeSuite",
     "SynchronizedAfterSuite", "ReportAfterEach", "ReportAfterSuite"}

\* The node types PushNode diverts to pushSuiteNode.
SuiteNodeTypes ==
    {"BeforeSuite", "AfterSuite", "SynchronizedBeforeSuite",
     "SynchronizedAfterSuite", "ReportAfterSuite"}

BeforeSuiteFamily == {"BeforeSuite", "SynchronizedBeforeSuite"}
AfterSuiteFamily == {"AfterSuite", "SynchronizedAfterSuite"}

\* Nodes.WithType: the nodes of a list whose type is one of ts, in order.
WithType(nodes, ts) == SelectSeq(nodes, LAMBDA n : n.type \in ts)

(***************************************************************************)
(* Nodes pushed during tree construction.  A container's body is the       *)
(* sequence of nodes it pushes when entered, after which it returns or     *)
(* (panics = TRUE) raises a fault.                                         *)
(***************************************************************************)
Leaf(t, l) == [type |-> t, loc |-> l, body |-> <<>>, panics |-> FALSE]
Container(l, b, p) == [type |-> "Container", loc |-> l, body |-> b, panics |-> p]

SuiteLeaves ==
    {Leaf(t, l) : t \in BeforeSuiteFamily \cup AfterSuiteFamily, l \in {"s1", "s2"}}
        \cup {Leaf("ReportAfterSuite", "s3")}

SpecLeaves ==
    {Leaf(t, "n1") : t \in NodeTypes \ (SuiteNodeTypes \cup {"Container"})}

Containers ==
    { Container("c1", <<>>, FALSE),
      Container("c2", <<Leaf("It", "n2")>>, FALSE),
      Container("c3", <<Leaf("BeforeEach", "n3")>>, TRUE),
      Container("c4", <<Leaf("BeforeEach", "n4"),
                        Container("c5", <<Leaf("It", "n5")>>, FALSE),
                        Leaf("BeforeSuite", "s4")>>, FALSE) }

PushableNodes == SuiteLeaves \cup SpecLeaves \cup Containers

(***************************************************************************)
(* Trees                                                                   *)
(***************************************************************************)
ZeroNode == [type |-> "Invalid", loc |-> "", body |-> <<>>, panics |-> FALSE]
TreeNode(n) == [node |-> n, children |-> <<>>]
AppendTreeNodeChild(parent, child) ==
    [parent EXCEPT !.children = Append(@, child)]

(***************************************************************************)
(* Errors                                                                  *)
(***************************************************************************)
NoErr == [kind |-> "nil"]
NodeErr(k, node) == [kind |-> k, type |-> node.type, loc |-> node.loc]
MultipleErr(k, node, first) ==
    [kind |-> k, type |-> node.type, loc |-> node.loc,
     firstType |-> first.type, firstLoc |-> first.loc]
PanicErr(node) == [kind |-> "CaughtPanicDuringABuildPhase", loc |-> node.loc]
RunPanic == [kind |-> "panic: cannot run before building the tree"]

(***************************************************************************)
(* Suite.pushSuiteNode and Suite.PushNode, on the suite's fields           *)
(* s = [phase, tree, topLevelContainers, suiteNodes]; the result is the    *)
(* suite afterwards and the error returned.                                *)
(***************************************************************************)
Suite ==
    [phase |-> phase, tree |-> tree,
     topLevelContainers |-> topLevelContainers, suiteNodes |-> suiteNodes]

\* pushSuiteNode looking only for an earlier node of the very same type.
pushSuiteNodeSameTypeOnly(s, node) ==
    LET existing == WithType(s.suiteNodes, {node.type})
    IN  IF s.phase = PhaseBuildTree
          THEN [s |-> s, err |-> NodeErr("SuiteNodeInNestedContext", node)]
        ELSE IF s.phase = PhaseRun
          THEN [s |-> s, err |-> NodeErr("SuiteNodeDuringRunPhase", node)]
        ELSE IF node.type \in BeforeSuiteFamily /\ Len(existing) > 0
          THEN [s |-> s,
                err |-> MultipleErr("MultipleBeforeSuiteNodes", node, existing[1])]
        ELSE IF node.type \in AfterSuiteFamily /\ Len(existing) > 0
          THEN [s |-> s,
                err |-> MultipleErr("MultipleAfterSuiteNodes", node, existing[1])]
        ELSE [s |-> [s EXCEPT !.suiteNodes = Append(@, node)], err |-> NoErr]

pushSuiteNode(s, node) ==
    LET existingBefores == WithType(s.suiteNodes, BeforeSuiteFamily)
        existingAfters == WithType(s.suiteNodes, AfterSuiteFamily)
    IN  IF s.phase = PhaseBuildTree
          THEN [s |-> s, err |-> NodeErr("SuiteNodeInNestedContext", node)]
        ELSE IF s.phase = PhaseRun
          THEN [s |-> s, err |-> NodeErr("SuiteNodeDuringRunPhase", node)]
        ELSE IF node.type \in BeforeSuiteFamily /\ Len(existingBefores) > 0
          THEN [s |-> s,
                err |-> MultipleErr("MultipleBeforeSuiteNodes", node, existingBefores[1])]
        ELSE IF node.type \in AfterSuiteFamily /\ Len(existingAfters) > 0
          THEN [s |-> s,
                err |-> MultipleErr("MultipleAfterSuiteNodes", node, existingAfters[1])]
        ELSE [s |-> [s EXCEPT !.suiteNodes = Append(@, node)], err |-> NoErr]

RECURSIVE PushNode(_, _)
RECURSIVE RunBody(_, _)

\* node.Body(): the body pushes its nodes in order; what each push returns
\* is the body's own business and does not reach the suite.
RunBody(s, body) ==
    IF body = <<>> THEN s
    ELSE RunBody(PushNode(s, Head(body)).s, Tail(body))

\* PushNode without its check of the Run phase.
PushNodeNoRunCheck(s, node) ==
    IF node.type \in SuiteNodeTypes THEN pushSuiteNode(s, node)
    ELSE IF node.type = "Container"
      THEN IF s.phase = PhaseBuildTopLevel
             THEN [s |-> [s EXCEPT !.topLevelContainers = Append(@, node)],
                   err |-> NoErr]
           ELSE IF s.phase = PhaseBuildTree
             THEN LET parentTree == s.tree
                      entered == RunBody([s EXCEPT !.tree = TreeNode(node)], node.body)
                  IN  [s |-> [entered EXCEPT
                                !.tree = AppendTreeNodeChild(parentTree, entered.tree)],
                       err |-> IF node.panics THEN PanicErr(node) ELSE NoErr]
           ELSE [s |-> s, err |-> NoErr]
    ELSE [s |-> [s EXCEPT !.tree = AppendTreeNodeChild(@, TreeNode(node))],
          err |-> NoErr]

\* PushNode leaving the subtree of a container whose body faults out of
\* the tree.
PushNodeDroppingFaulted(s, node) ==
    IF node.type \in SuiteNodeTypes THEN pushSuiteNode(s, node)
    ELSE IF s.phase = PhaseRun
      THEN [s |-> s, err |-> NodeErr("PushingNodeInRunPhase", node)]
    ELSE IF node.type = "Container"
      THEN IF s.phase = PhaseBuildTopLevel
             THEN [s |-> [s EXCEPT !.topLevelContainers = Append(@, node)],
                   err |-> NoErr]
           ELSE LET parentTree == s.tree
                    entered == RunBody([s EXCEPT !.tree = TreeNode(node)], node.body)
                IN  IF node.panics
                      THEN [s |-> [entered EXCEPT !.tree = parentTree],
                            err |-> PanicErr(node)]
                      ELSE [s |-> [entered EXCEPT
                                     !.tree = AppendTreeNodeChild(parentTree, entered.tree)],
                            err |-> NoErr]
    ELSE [s |-> [s EXCEPT !.tree = AppendTreeNodeChild(@, TreeNode(node))],
          err |-> NoErr]

PushNode(s, node) ==
    IF node.type \in SuiteNodeTypes THEN pushSuiteNode(s, node)
    ELSE IF s.phase = PhaseRun
      THEN [s |-> s, err |-> NodeErr("PushingNodeInRunPhase", node)]
    ELSE IF node.type = "Container"
      THEN IF s.phase = PhaseBuildTopLevel
             THEN [s |-> [s EXCEPT !.topLevelContainers = Append(@, node)],
                   err |-> NoErr]
           ELSE LET parentTree == s.tree
                    entered == RunBody([s EXCEPT !.tree = TreeNode(node)], node.body)
                IN  [s |-> [entered EXCEPT
                              !.tree = AppendTreeNodeChild(parentTree, entered.tree)],
                     err |-> IF node.panics THEN PanicErr(node) ELSE NoErr]
    ELSE [s |-> [s EXCEPT !.tree = AppendTreeNodeChild(@, TreeNode(node))],
          err |-> NoErr]

\* A loop over the top-level containers that goes on after an error and
\* returns the first one.
RECURSIVE PushTopLevelAll(_, _)
PushTopLevelAll(s, containers) ==
    IF containers = <<>> THEN [s |-> s, err |-> NoErr]
    ELSE LET r == PushNode(s, Head(containers))
             rest == PushTopLevelAll(r.s, Tail(containers))
         IN  [s |-> rest.s, err |-> IF r.err # NoErr THEN r.err ELSE rest.err]

\* The loop of Suite.BuildTree: push each top-level container, stop at the
\* first error.
RECURSIVE PushTopLevel(_, _)
PushTopLevel(s, containers) ==
    IF containers = <<>> THEN [s |-> s, err |-> NoErr]
    ELSE LET r == PushNode(s, Head(containers))
         IN  IF r.err # NoErr THEN r ELSE PushTopLevel(r.s, Tail(containers))

SetSuite(s) ==
    /\ phase' = s.phase
    /\ tree' = s.tree
    /\ topLevelContainers' = s.topLevelContainers
    /\ suiteNodes' = s.suiteNodes

(***************************************************************************)
(* Calls on the suite                                                      *)
(***************************************************************************)
InitBuild ==
    /\ phase = PhaseBuildTopLevel
    /\ tree = TreeNode(ZeroNode)
    /\ topLevelContainers = <<>>
    /\ suiteNodes = <<>>
    /\ lastCall = [op |-> "NewSuite", err |-> NoErr]
    /\ nCalls = 0
    /\ handler = [w \in Workers |-> [interrupted |-> FALSE, chan |-> 0]]
    /\ failer = [state |-> "Passed", message |-> "", forwardedPanic |-> FALSE]
    /\ main = [pc |-> "idle"]
    /\ tasks = <<>>
    /\ cfg = <<>>
    /\ specs = <<>>
    /\ wk = <<>>
    /\ srv = <<>>

CallPushNode ==
    /\ nCalls < MaxCalls
    /\ \E node \in PushableNodes :
         LET r == PushNode(Suite, node)
         IN  /\ SetSuite(r.s)
             /\ lastCall' = [op |-> "PushNode", node |-> node, err |-> r.err]
    /\ nCalls' = nCalls + 1
    /\ UNCHANGED <<handler, failer, main, tasks, runVars>>

CallBuildTree ==
    /\ nCalls < MaxCalls
    /\ LET r == PushTopLevel([Suite EXCEPT !.phase = PhaseBuildTree],
                             topLevelContainers)
       IN  /\ SetSuite(r.s)
           /\ lastCall' = [op |-> "BuildTree", err |-> r.err]
    /\ nCalls' = nCalls + 1
    /\ UNCHANGED <<handler, failer, main, tasks, runVars>>

\* Suite.Run up to the call of runSpecs: it panics unless the tree was built.
CallRun ==
    /\ nCalls < MaxCalls
    /\ IF phase # PhaseBuildTree
         THEN /\ UNCHANGED <<phase, tree, topLevelContainers, suiteNodes>>
              /\ lastCall' = [op |-> "Run", err |-> RunPanic]
         ELSE /\ phase' = PhaseRun
              /\ UNCHANGED <<tree, topLevelContainers, suiteNodes>>
              /\ lastCall' = [op |-> "Run", err |-> NoErr]
    /\ nCalls' = nCalls + 1
    /\ UNCHANGED <<handler, failer, main, tasks, runVars>>

NextBuild == CallPushNode \/ CallBuildTree \/ CallRun

SpecBuild == InitBuild /\ [][NextBuild]_vars

(***************************************************************************)
(* Claims about the phase state machine and tree construction              *)
(***************************************************************************)
\* A step that is a call of PushNode.
IsPushStep == nCalls' = nCalls + 1 /\ lastCall'.op = "PushNode"

\* C1: over any sequence of PushNode, BuildTree and Run calls the phase never
\* regresses: every change of the phase is BuildTopLevel -> BuildTree or
\* BuildTree -> Run, and once it is Run it stays Run.
C1_PhaseNeverRegresses ==
    [][\/ phase' = phase
       \/ phase = PhaseBuildTopLevel /\ phase' = PhaseBuildTree
       \/ phase = PhaseBuildTree /\ phase' = PhaseRun]_vars

RunPhaseErrors == {"PushingNodeInRunPhase", "SuiteNodeDuringRunPhase"}

\* C2: while the phase is Run, PushNode of a node of any type returns a
\* run-phase error and leaves the tree, the top-level container list and
\* the suite-node list as they were.
C2_PushInRunPhaseFails ==
    [][(phase = PhaseRun /\ IsPushStep) =>
          /\ lastCall'.err.kind \in RunPhaseErrors
          /\ lastCall'.err.type = lastCall'.node.type
          /\ UNCHANGED <<phase, tree, topLevelContainers, suiteNodes>>]_vars

\* A suite-level node was pushed in the Run phase and refused.
C2_Witness ==
    /\ phase = PhaseRun
    /\ lastCall.op = "PushNode"
    /\ lastCall.node.type \in SuiteNodeTypes
    /\ lastCall.err.kind = "SuiteNodeDuringRunPhase"

FamilyOf(t) ==
    IF t \in BeforeSuiteFamily THEN BeforeSuiteFamily
    ELSE IF t \in AfterSuiteFamily THEN AfterSuiteFamily
    ELSE {}

\* C3: the suite-node list never holds more than one node of the
\* Before-suite family nor more than one of the After-suite family; a
\* PushNode of a node of a family whose first node is registered returns
\* an error and does not extend the list, and when nothing but PushNode
\* was called (the phase is still BuildTopLevel) that error names the type
\* and the location of the first.
C3_OneSuiteNodePerFamily ==
    /\ [](/\ Len(WithType(suiteNodes, BeforeSuiteFamily)) <= 1
          /\ Len(WithType(suiteNodes, AfterSuiteFamily)) <= 1)
    /\ [][(IsPushStep /\ WithType(suiteNodes, FamilyOf(lastCall'.node.type)) # <<>>) =>
            LET first == WithType(suiteNodes, FamilyOf(lastCall'.node.type))[1]
            IN  /\ suiteNodes' = suiteNodes
                /\ lastCall'.err # NoErr
                /\ phase = PhaseBuildTopLevel =>
                      /\ lastCall'.err.kind \in
                            {"MultipleBeforeSuiteNodes", "MultipleAfterSuiteNodes"}
                      /\ lastCall'.err.firstType = first.type
                      /\ lastCall'.err.firstLoc = first.loc]_vars

\* A second After-suite-family node, of another type and at another place
\* than the first, was pushed and refused.
C3_Witness ==
    /\ lastCall.op = "PushNode"
    /\ lastCall.err.kind = "MultipleAfterSuiteNodes"
    /\ lastCall.err.firstType # lastCall.node.type
    /\ lastCall.err.firstLoc # lastCall.node.loc
    /\ Len(WithType(suiteNodes, AfterSuiteFamily)) = 1

\* A step that is the call of BuildTree that leaves BuildTopLevel.
IsBuildStep ==
    phase = PhaseBuildTopLevel /\ nCalls' = nCalls + 1 /\ lastCall'.op = "BuildTree"

\* The children the step added to the root of the tree.
AddedChildren == SubSeq(tree'.children, Len(tree.children) + 1, Len(tree'.children))
AddedNodes == [i \in 1 .. Len(AddedChildren) |-> AddedChildren[i].node]

\* The subtree of an entered container holds what one run of its body pushes.
BodyRanOnce(t) ==
    [i \in 1 .. Len(t.children) |-> t.children[i].node]
        = WithType(t.node.body, NodeTypes \ SuiteNodeTypes)

\* While the phase is BuildTopLevel a push of a Container appends it to the
\* top-level list and changes nothing else, and no push adds a container
\* to the tree.
DeferredInBuildTopLevel ==
    (phase = PhaseBuildTopLevel /\ IsPushStep) =>
        /\ \A i \in 1 .. Len(AddedNodes) : AddedNodes[i].type # "Container"
        /\ lastCall'.node.type = "Container" =>
              /\ topLevelContainers' = Append(topLevelContainers, lastCall'.node)
              /\ lastCall'.err = NoErr
              /\ UNCHANGED <<phase, tree, suiteNodes>>

\* The recorded containers up to and including the first whose body faults.
UpToFirstFault(cs) ==
    LET bad == {i \in 1 .. Len(cs) : cs[i].panics}
    IN  IF bad = {} THEN cs
        ELSE SubSeq(cs, 1, CHOOSE i \in bad : \A j \in bad : i <= j)

\* C20 as stated: no container body is invoked while the phase is
\* BuildTopLevel, a push of a Container then only appends it to the
\* top-level list and leaves the tree unchanged; BuildTree() then enters
\* every recorded top-level container in registration order, each body
\* exactly once.
C20_EveryContainerEntered ==
    [][/\ DeferredInBuildTopLevel
       /\ IsBuildStep =>
            /\ AddedNodes = topLevelContainers
            /\ \A i \in 1 .. Len(AddedChildren) : BodyRanOnce(AddedChildren[i])]_vars

\* C20, amended: as above, but BuildTree() enters the recorded top-level
\* containers in registration order, each body exactly once, only up to
\* and including the first whose body raises a fault; it then returns that
\* build error and the containers recorded after it are never entered.
C20_EnteredUpToFirstFault ==
    [][/\ DeferredInBuildTopLevel
       /\ IsBuildStep =>
            /\ AddedNodes = UpToFirstFault(topLevelContainers)
            /\ \A i \in 1 .. Len(AddedChildren) : BodyRanOnce(AddedChildren[i])
            /\ topLevelContainers' = topLevelContainers
            /\ (lastCall'.err = NoErr) <=>
                  (\A i \in 1 .. Len(topLevelContainers) :
                     ~topLevelContainers[i].panics)]_vars

\* BuildTree was called after a container whose body faults and a second
\* container were recorded: the first was entered, the second was not.
C20_Witness ==
    /\ nCalls = 3
    /\ lastCall.op = "BuildTree"
    /\ lastCall.err.kind = "CaughtPanicDuringABuildPhase"
    /\ Len(topLevelContainers) = 2
    /\ Len(tree.children) = 1
    /\ tree.children[1].node = topLevelContainers[1]
    /\ Len(tree.children[1].children) = 1

\* The subtree a container is to leave in the tree: the container with,
\* in push order, the nodes its body pushes that belong in the tree, the
\* containers among them with their own subtrees.
RECURSIVE SubtreeOf(_)
SubtreeOf(node) ==
    LET pushed == WithType(node.body, NodeTypes \ SuiteNodeTypes)
    IN  [node |-> node,
         children |-> [i \in 1 .. Len(pushed) |->
                         IF pushed[i].type = "Container" THEN SubtreeOf(pushed[i])
                         ELSE TreeNode(pushed[i])]]

\* C24: in the BuildTree phase, when PushNode of a Container returns,
\* whether its body returned or raised a fault, the current tree node is
\* the one that was current before the call with exactly one new last
\* child, the subtree of the container whose children are the nodes pushed
\* during its body in push order; a fault in the body is returned as a
\* build error with the container's location; a node that is no container
\* is appended as the last child of the current tree node, its body not
\* invoked.
C24_ContainerPushExtendsTree ==
    [][(/\ phase = PhaseBuildTree
        /\ IsPushStep
        /\ lastCall'.node.type \notin SuiteNodeTypes) =>
          LET node == lastCall'.node
          IN  /\ tree' = AppendTreeNodeChild(
                             tree,
                             IF node.type = "Container" THEN SubtreeOf(node)
                             ELSE TreeNode(node))
              /\ lastCall'.err =
                   IF node.type = "Container" /\ node.panics
                     THEN [kind |-> "CaughtPanicDuringABuildPhase", loc |-> node.loc]
                     ELSE NoErr
              /\ UNCHANGED <<phase, topLevelContainers, suiteNodes>>]_vars

\* A container whose body pushes a node and then faults was pushed in the
\* BuildTree phase, after another node: its subtree is the last child.
C24_Witness ==
    /\ phase = PhaseBuildTree
    /\ lastCall.op = "PushNode"
    /\ lastCall.node.type = "Container"
    /\ lastCall.err.kind = "CaughtPanicDuringABuildPhase"
    /\ Len(tree.children) = 2
    /\ tree.children[2].node = lastCall.node
    /\ Len(tree.children[2].children) = 1

(***************************************************************************)
(* The interrupt handler.  Status() gives the interrupted flag and the     *)
(* handler's current channel; an interrupt sets the flag, closes the       *)
(* current channel and opens the next one.  Channels are numbered in the   *)
(* order they were opened, so channel c of worker w is closed when         *)
(* c < handler[w].chan.  NilChan is the nil channel runNode is given for   *)
(* report hooks.  Every worker is a process with a handler of its own.     *)
(***************************************************************************)
NilChan == -1
None == "none"
InitHandler == [interrupted |-> FALSE, chan |-> 0]
Status(w) == [Interrupted |-> handler[w].interrupted, Channel |-> handler[w].chan]
Closed(w, c) == c # NilChan /\ c < handler[w].chan
DeliverInterrupt(h) == [interrupted |-> TRUE, chan |-> h.chan + 1]

(***************************************************************************)
(* The failure recorder: one slot that keeps the first failure or fault    *)
(* reported and gives it up, emptying the slot, on Drain.                  *)
(***************************************************************************)
InitFailer == [state |-> "Passed", message |-> "", forwardedPanic |-> FALSE]
Record(f, st, msg, fwd) ==
    IF f.state = "Passed"
      THEN [state |-> st, message |-> msg, forwardedPanic |-> fwd]
      ELSE f

\* The ways a node body ends: it returns, or it reports a failure, an abort
\* or a skip (each unwinds the body), or it raises a fault of its own.
BodyEndings == {"return", "fail", "abort", "skip", "panic"}
FailerAfterBody(f, how) ==
    CASE how = "fail" -> Record(f, "Failed", "fail", FALSE)
      [] how = "abort" -> Record(f, "Aborted", "abort", FALSE)
      [] how = "skip" -> Record(f, "Skipped", "skip", FALSE)
      [] OTHER -> f

(***************************************************************************)
(* Nodes as runNode sees them, and the failure runNode prepares and        *)
(* returns.                                                                *)
(***************************************************************************)
RNode(t, lvl, l) == [type |-> t, level |-> lvl, loc |-> l]

EmptyFailure ==
    [message |-> "", location |-> "", forwardedPanic |-> FALSE,
     nodeType |-> "Invalid", nodeLocation |-> "", context |-> "", containerIndex |-> 0]

\* Lines 767-775: the failure pre-populated with the node's context.
NodeFailure(node) ==
    LET inContainer ==
            ~(node.type = "It" \/ node.type \in SuiteNodeTypes) /\ node.level > 0
    IN  [EmptyFailure EXCEPT
           !.nodeType = node.type,
           !.nodeLocation = node.loc,
           !.context = IF node.type = "It" \/ node.type \in SuiteNodeTypes
                         THEN "Leaf"
                       ELSE IF node.level <= 0 THEN "TopLevel" ELSE "InContainer",
           !.containerIndex = IF inContainer THEN node.level - 1 ELSE 0]

\* Lines 797-803: what runNode returns when the task's outcome came first.
OutcomeResult(node, outcome, failureFromRun) ==
    IF outcome = "Passed"
      THEN [state |-> "Passed", failure |-> EmptyFailure]
      ELSE [state |-> outcome,
            failure |-> [NodeFailure(node) EXCEPT
                           !.message = failureFromRun.message,
                           !.location = "body",
                           !.forwardedPanic = failureFromRun.forwardedPanic]]

\* Lines 804-806: what runNode returns when the interrupt came first.
InterruptResult(node) ==
    [state |-> "Interrupted",
     failure |-> [NodeFailure(node) EXCEPT
                    !.message = "interrupted", !.location = node.loc]]

(***************************************************************************)
(* runNode in detail: the caller spawns a task for the body and selects    *)
(* on the task's outcome and on the interrupt channel.  The task runs the  *)
(* body, then its deferred function (lines 782-790): it records a fault    *)
(* if the body did not finish, drains the recorder, and offers the         *)
(* outcome and then the failure on two unbuffered channels of this call.   *)
(*                                                                         *)
(* main.pc:  idle      no call yet                                         *)
(*           spawned   the task is started, the select not yet evaluated   *)
(*           parked    the select found no case ready and waits            *)
(*           outcome   the outcome was received, the failure is awaited    *)
(*           returned  runNode has returned main.ret                       *)
(* task pc:  body, deferred, sendOutcome, sendFailure, done                *)
(***************************************************************************)
RaceNodes ==
    { RNode("It", 2, "it"), RNode("BeforeEach", 0, "be"),
      RNode("AfterEach", 2, "ae"), RNode("ReportAfterEach", 1, "rae") }

\* The channel a caller passes: nil for a report hook, else one it got from
\* Status() now or earlier.
ChannelsFor(node) ==
    IF node.type \in {"ReportAfterEach", "ReportAfterSuite"}
      THEN {NilChan}
      ELSE 0 .. handler[1].chan

cur == Len(tasks)

InitNode ==
    /\ handler = [w \in Workers |-> InitHandler]
    /\ failer = InitFailer
    /\ main = [pc |-> "idle"]
    /\ tasks = <<>>
    /\ phase = PhaseRun
    /\ tree = TreeNode(ZeroNode)
    /\ topLevelContainers = <<>>
    /\ suiteNodes = <<>>
    /\ lastCall = [op |-> "Run", err |-> NoErr]
    /\ nCalls = 0
    /\ cfg = <<>>
    /\ specs = <<>>
    /\ wk = <<>>
    /\ srv = <<>>

\* Lines 777-794: the channels are made and the task is started.
StartRunNode ==
    /\ main.pc \in {"idle", "returned"}
    /\ Len(tasks) < MaxNodeRuns
    /\ \E node \in RaceNodes : \E c \in ChannelsFor(node) :
         main' = [pc |-> "spawned", node |-> node, chan |-> c,
                  intrInBody |-> FALSE, outcome |-> None, ret |-> None]
    /\ tasks' = Append(tasks, [pc |-> "body", finished |-> FALSE, fault |-> FALSE])
    /\ UNCHANGED <<handler, failer, buildVars, runVars>>

\* Line 792-793: the body of task i ends, the task of an earlier call
\* (abandoned by its caller) included.  how is kept as history.
BodyEnds ==
    /\ \E i \in 1 .. Len(tasks) : \E how \in BodyEndings :
         /\ tasks[i].pc = "body"
         /\ failer' = FailerAfterBody(failer, how)
         /\ tasks' = [tasks EXCEPT ![i] =
                        [pc |-> "deferred", finished |-> (how = "return"),
                         fault |-> (how # "return"), how |-> how]]
    /\ UNCHANGED <<handler, main, buildVars, runVars>>

\* Lines 782-787: the deferred function records a fault when the body
\* raised one or did not finish, then drains the recorder.
TaskDeferred ==
    /\ \E i \in 1 .. Len(tasks) :
         /\ tasks[i].pc = "deferred"
         /\ LET f == IF tasks[i].fault \/ ~tasks[i].finished
                       THEN Record(failer, "Failed", "panic", TRUE)
                       ELSE failer
            IN  /\ tasks' = [tasks EXCEPT ![i] =
                               [pc |-> "sendOutcome", outcome |-> f.state,
                                failureFromRun |-> f, how |-> tasks[i].how]]
                /\ failer' = InitFailer
    /\ UNCHANGED <<handler, main, buildVars, runVars>>

\* Line 796: the caller evaluates the select.  A case is ready when the
\* task already offers its outcome, or when the interrupt channel is
\* closed; of two ready cases either is taken; with none the caller parks.
MainSelect ==
    /\ main.pc = "spawned"
    /\ LET outcomeReady == tasks[cur].pc = "sendOutcome"
           interruptReady == Closed(1, main.chan)
       IN  \E choice \in {"outcome", "interrupt", "park"} :
             /\ choice = "outcome" => outcomeReady
             /\ choice = "interrupt" => interruptReady
             /\ choice = "park" => ~outcomeReady /\ ~interruptReady
             /\ CASE choice = "outcome" ->
                       /\ main' = [main EXCEPT !.pc = "outcome",
                                               !.outcome = tasks[cur].outcome]
                       /\ tasks' = [tasks EXCEPT ![cur].pc = "sendFailure"]
                  [] choice = "interrupt" ->
                       /\ main' = [main EXCEPT !.pc = "returned",
                                               !.ret = InterruptResult(main.node)]
                       /\ UNCHANGED tasks
                  [] OTHER ->
                       /\ main' = [main EXCEPT !.pc = "parked"]
                       /\ UNCHANGED tasks
    /\ UNCHANGED <<handler, failer, buildVars, runVars>>

\* Line 788 meeting line 797: the task hands its outcome to the parked
\* caller.  Only the task of the call in progress has a receiver.
TaskSendOutcome ==
    /\ main.pc = "parked"
    /\ tasks[cur].pc = "sendOutcome"
    /\ main' = [main EXCEPT !.pc = "outcome", !.outcome = tasks[cur].outcome]
    /\ tasks' = [tasks EXCEPT ![cur].pc = "sendFailure"]
    /\ UNCHANGED <<handler, failer, buildVars, runVars>>

\* Line 789 meeting lines 798-803: the failure is handed over and runNode
\* returns the task's outcome.
TaskSendFailure ==
    /\ main.pc = "outcome"
    /\ tasks[cur].pc = "sendFailure"
    /\ main' = [main EXCEPT
                  !.pc = "returned",
                  !.ret = OutcomeResult(main.node, main.outcome,
                                        tasks[cur].failureFromRun)]
    /\ tasks' = [tasks EXCEPT ![cur].pc = "done"]
    /\ UNCHANGED <<handler, failer, buildVars, runVars>>

\* The interrupt signal is delivered.  A caller parked in the select on
\* the channel being closed takes the interrupt case (lines 804-806).
\* main.intrInBody notes that this call's channel was closed while its
\* body was still executing.
InterruptSignal ==
    /\ handler[1].chan < MaxInterrupts
    /\ handler' = [handler EXCEPT ![1] = DeliverInterrupt(@)]
    /\ IF main.pc \in {"spawned", "parked"} /\ main.chan = handler[1].chan
         THEN main' = [main EXCEPT
                         !.intrInBody = (tasks[cur].pc = "body"),
                         !.pc = IF main.pc = "parked" THEN "returned" ELSE @,
                         !.ret = IF main.pc = "parked"
                                   THEN InterruptResult(main.node) ELSE @]
         ELSE UNCHANGED main
    /\ UNCHANGED <<failer, tasks, buildVars, runVars>>

NextNode ==
    \/ StartRunNode
    \/ BodyEnds
    \/ TaskDeferred
    \/ MainSelect
    \/ TaskSendOutcome
    \/ TaskSendFailure
    \/ InterruptSignal

SpecNode == InitNode /\ [][NextNode]_vars

(***************************************************************************)
(* Claims about runNode                                                    *)
(***************************************************************************)
\* C6: if the interrupt signal is delivered while the node body is still
\* executing, runNode returns state Interrupted (never Passed), in every
\* interleaving of the task and the interrupt.
C6_InterruptMidBodyYieldsInterrupted ==
    (main.pc = "returned" /\ main.intrInBody) => main.ret.state = "Interrupted"

(***************************************************************************)
(* Running the suite: configuration, specs, reports                        *)
(***************************************************************************)
MaxFlakeAttempts == 3
DataValues == {"d1", "d2"}
SkippingLocs == {"it", "ae0"}
NestedLocs == {"be0", "ae0", "rae0", "be1", "jae1", "ae2", "it"}

Parallel == cfg.ParallelTotal > 1

SpecStates ==
    {"Invalid", "Pending", "Skipped", "Passed", "Failed", "Aborted", "Interrupted"}
\* types.SpecStateFailureStates
FailureStates == {"Failed", "Aborted", "Interrupted"}

\* What a node body can make the failure recorder hand to runNode.
BodyResults ==
    { [state |-> "Passed", message |-> "", forwardedPanic |-> FALSE],
      [state |-> "Failed", message |-> "fail", forwardedPanic |-> FALSE],
      [state |-> "Aborted", message |-> "abort", forwardedPanic |-> FALSE],
      [state |-> "Skipped", message |-> "skip", forwardedPanic |-> FALSE] }

\* The bodies registered in the suites run here: those of the nested spec
\* can pass, fail or abort, and two of them can also skip; a report hook of the other specs passes or aborts,
\* a ReportAfterSuite hook passes, any other body passes or fails.
Bodies(node) ==
    IF node.loc \in SkippingLocs THEN BodyResults
    ELSE IF node.loc \in NestedLocs
      THEN {b \in BodyResults : b.state # "Skipped"}
    ELSE IF node.type = "ReportAfterEach"
      THEN {b \in BodyResults : b.state \in {"Passed", "Aborted"}}
    ELSE IF node.type = "ReportAfterSuite"
      THEN {b \in BodyResults : b.state = "Passed"}
    ELSE {b \in BodyResults : b.state \in {"Passed", "Failed"}}

\* What runNode can return for a node given channel c by worker w: the
\* body's outcome, or Interrupted once c is closed.
NodeResults(w, node, c) ==
    {OutcomeResult(node, b.state, b) : b \in Bodies(node)}
        \cup (IF Closed(w, c) THEN {InterruptResult(node)} ELSE {})

\* Suite.failureForLeafNodeWithError
failureForLeafNodeWithError(node, msg) ==
    [state |-> "Failed",
     failure |-> [EmptyFailure EXCEPT
                    !.message = msg, !.location = node.loc, !.context = "Leaf",
                    !.nodeType = node.type, !.nodeLocation = node.loc]]

Max(a, b) == IF a > b THEN a ELSE b

RECURSIVE Concat(_)
Concat(seqs) == IF seqs = <<>> THEN <<>> ELSE Head(seqs) \o Concat(Tail(seqs))

MaxLevel(nodes) ==
    IF nodes = <<>> THEN 0
    ELSE CHOOSE m \in {nodes[i].level : i \in 1 .. Len(nodes)} :
           \A i \in 1 .. Len(nodes) : nodes[i].level <= m

AtLevel(nodes, l) == SelectSeq(nodes, LAMBDA n : n.level = l)

\* Nodes.SortedByAscendingNestingLevel / SortedByDescendingNestingLevel:
\* stable sorts on the nesting level.
SortedByAscendingNestingLevel(nodes) ==
    Concat([i \in 1 .. MaxLevel(nodes) + 1 |-> AtLevel(nodes, i - 1)])
SortedByDescendingNestingLevel(nodes) ==
    Concat([i \in 1 .. MaxLevel(nodes) + 1 |-> AtLevel(nodes, MaxLevel(nodes) + 1 - i)])

\* Nodes.WithinNestingLevel
WithinNestingLevel(nodes, deepest) == SelectSeq(nodes, LAMBDA n : n.level <= deepest)

\* Nodes.FirstNodeWithType: the first node of one of the types, or the zero node.
FirstNodeWithType(nodes, ts) ==
    IF WithType(nodes, ts) = <<>> THEN ZeroNode ELSE WithType(nodes, ts)[1]
IsZero(node) == node.type = "Invalid"

\* Specs.CountWithoutSkip and Specs.HasAnySpecsMarkedPending
CountWithoutSkip(ss) == Len(SelectSeq(ss, LAMBDA sp : ~sp.skip))
HasAnySpecsMarkedPending(ss) == \E i \in 1 .. Len(ss) : ss[i].pending

\* A spec: its nodes in tree order, the Skip flag, whether a node of it is
\* marked pending, and its flake-attempt decoration.
Spec(nodes, skip, pending, flake) ==
    [nodes |-> nodes, skip |-> skip, pending |-> pending, flake |-> flake]
NoSpec == Spec(<<>>, FALSE, FALSE, 0)

\* No node has been run yet.
NoResult == [state |-> None, failure |-> EmptyFailure]

\* A fresh types.SpecReport.  The h fields are history: the number of
\* setup, subject and cleanup bodies started for the report, whether a
\* node run for it yielded Aborted, and what the last node run for it
\* yielded.
NewSpecReport(t, l) ==
    [LeafNodeType |-> t, LeafNodeLocation |-> l, State |-> "Invalid",
     Failure |-> EmptyFailure, NumAttempts |-> 0,
     CapturedGinkgoWriterOutput |-> <<>>,
     hBodies |-> 0, hSawAbort |-> FALSE, hLast |-> NoResult]
ZeroSpecReport == NewSpecReport("Invalid", "")

\* A worker before runSpecs.  ran, consumed, hAttempts, hTaken, hLoop and
\* hSync are history: the nodes started in the current attempt, the data
\* handed to the consume body, the final states of the current spec's
\* attempts, the spec indices taken, how the spec loop ended, what the two
\* bodies of SynchronizedAfterSuite yielded and how the wait between them
\* went, and what the produce body yielded and how its post went.
InitWorker ==
    [pc |-> "start",
     numSpecsThatWillBeRun |-> 0,
     report |-> [SuiteSucceeded |-> FALSE, SpecReports |-> <<>>,
                 SpecialSuiteFailureReasons |-> <<>>],
     interruptStatus |-> [Interrupted |-> FALSE, Channel |-> 0],
     suiteAborted |-> FALSE,
     counter |-> 0,
     idx |-> 0,
     spec |-> NoSpec,
     cur |-> ZeroSpecReport,
     attempt |-> 0,
     maxAttempts |-> 0,
     attemptStatus |-> [Interrupted |-> FALSE, Channel |-> 0],
     deepest |-> -1,
     todo |-> <<>>,
     node |-> ZeroNode,
     chan |-> NilChan,
     ctx |-> "",
     hook |-> "",
     data |-> None,
     err |-> FALSE,
     writer |-> <<>>,
     placeholder |-> FALSE,
     events |-> <<>>,
     ran |-> <<>>,
     consumed |-> <<>>,
     hAttempts |-> <<>>,
     hTaken |-> <<>>,
     hLoop |-> None,
     hAfter |-> [all |-> NoResult, wait |-> None, final |-> NoResult],
     hSync |-> [produce |-> None, post |-> None, data |-> None],
     success |-> FALSE]
OffWorker == [InitWorker EXCEPT !.pc = "off"]

\* The coordination service of a parallel run: the state of the
\* synchronized before-suite hook with its data, the shared spec counter,
\* the workers that have finished, and whether an abort was posted.
InitServer ==
    [bss |-> "none", data |-> None, counter |-> 0, finished |-> {}, aborted |-> FALSE]

(***************************************************************************)
(* The straight-line code of runSpecs, runSpec, reportAfterEach,           *)
(* runSuiteNode and runReportAfterSuiteNode between two blocking points    *)
(* (a node body being run, a call of the coordination service), as         *)
(* operators from a worker's state s to its state at the next blocking     *)
(* point.  w is the worker (suiteConfig.ParallelNode).                     *)
(***************************************************************************)
Emit(s, e) == [s EXCEPT !.events = Append(@, e)]
Truncate(s) == [s EXCEPT !.writer = <<>>]
StartIntercepting(s) == Emit(s, [e |-> "StartInterceptingOutput"])
StopIntercepting(s) == Emit(s, [e |-> "StopInterceptingAndReturnOutput"])
WillRun(s) == Emit(s, [e |-> "WillRun", r |-> s.cur])

\* runNode up to its select: the body of node is started.
StartNode(s, node, c, ctx, todo) ==
    [s EXCEPT !.pc = "node", !.node = node, !.chan = c, !.ctx = ctx,
              !.todo = todo, !.ran = Append(@, node),
              !.cur.hBodies = IF ctx \in {"setup", "cleanup"} THEN @ + 1 ELSE @]

\* A report that is handed to the reporter and kept, but never posted.
processSpecReportLocal(s) ==
    LET s1 == Emit(s, [e |-> "DidRun", r |-> s.cur])
    IN  [s1 EXCEPT
           !.report.SuiteSucceeded = @ /\ s.cur.State \notin FailureStates,
           !.report.SpecReports = Append(@, s.cur)]

\* Lines 439-448
processSpecReport(s) ==
    LET s1 == Emit(s, [e |-> "DidRun", r |-> s.cur])
        s2 == IF Parallel THEN Emit(s1, [e |-> "PostDidRun", r |-> s.cur]) ELSE s1
    IN  [s2 EXCEPT
           !.report.SuiteSucceeded = @ /\ s.cur.State \notin FailureStates,
           !.report.SpecReports = Append(@, s.cur)]

\* Lines 559-564
EndSuite(w, s) ==
    LET s1 == Emit(s, [e |-> "SuiteDidEnd"])
        s2 == IF Parallel THEN Emit(s1, [e |-> "PostSuiteDidEnd"]) ELSE s1
    IN  [s2 EXCEPT !.pc = "done", !.success = s.report.SuiteSucceeded]

\* Lines 546-556 with runReportAfterSuiteNode up to its first blocking point.
RECURSIVE NextReportAfterSuite(_, _, _)
NextReportAfterSuite(w, s, todo) ==
    IF todo = <<>> THEN EndSuite(w, s)
    ELSE LET node == Head(todo)
             s1 == WillRun([s EXCEPT !.cur = NewSpecReport(node.type, node.loc)])
             s2 == StartIntercepting(Truncate(s1))
         IN  IF cfg.DryRun
               THEN NextReportAfterSuite(
                        w, processSpecReport([s1 EXCEPT !.cur.State = "Passed"]),
                        Tail(todo))
             ELSE IF Parallel
               THEN [s2 EXCEPT !.pc = "rasBlock", !.node = node, !.todo = Tail(todo)]
             ELSE [StartNode(s2, node, NilChan, "ras", Tail(todo))
                     EXCEPT !.placeholder = TRUE]

\* An end of the suite that does not hold an interrupt against the result.
FinishSuiteIgnoringInterrupt(w, s) ==
    LET s2 == [s EXCEPT !.interruptStatus = Status(w)]
    IN  IF w = 1
          THEN NextReportAfterSuite(w, s2, WithType(suiteNodes, {"ReportAfterSuite"}))
          ELSE EndSuite(w, s2)

\* Lines 537-557
FinishSuite(w, s) ==
    LET st == Status(w)
        s1 == [s EXCEPT !.interruptStatus = st]
        s2 == IF st.Interrupted
                THEN [s1 EXCEPT
                        !.report.SpecialSuiteFailureReasons = Append(@, "interrupted"),
                        !.report.SuiteSucceeded = FALSE]
                ELSE s1
    IN  IF w = 1
          THEN NextReportAfterSuite(w, s2, WithType(suiteNodes, {"ReportAfterSuite"}))
          ELSE EndSuite(w, s2)

RECURSIVE EnterSuiteNode(_, _, _, _, _)
RECURSIVE AfterSuiteGate(_, _)

\* A spec loop that is entered whatever the before-suite hook reported.
LoopGateOpen(w, s) == [s EXCEPT !.pc = "nextIndex", !.counter = 0]

\* Lines 463-465: the spec loop is entered only if the suite still succeeds.
LoopGate(w, s) ==
    IF s.report.SuiteSucceeded
      THEN [s EXCEPT !.pc = "nextIndex", !.counter = 0]
      ELSE AfterSuiteGate(w, s)

\* runSuiteNode has returned: lines 460 and 534, and what follows them.
SuiteNodeReturn(w, s) ==
    IF s.hook = "before"
      THEN LoopGate(w, processSpecReport(s))
      ELSE FinishSuite(w, processSpecReport(s))

\* Lines 711-720
SuiteNodeEnd(w, s) ==
    LET r == failureForLeafNodeWithError(s.node, "communication error")
        s1 == IF s.err /\ s.cur.State \in {"Invalid", "Passed"}
                THEN [s EXCEPT !.cur.State = r.state, !.cur.Failure = r.failure]
                ELSE s
        s2 == [s1 EXCEPT !.cur.CapturedGinkgoWriterOutput = s.writer]
    IN  SuiteNodeReturn(w, StopIntercepting(s2))

\* Lines 660-696: runSuiteNode up to its first blocking point.
EnterSuiteNode(w, s, node, c, hook) ==
    LET s0 == [s EXCEPT !.hook = hook, !.err = FALSE, !.data = None,
                        !.node = node, !.chan = c]
        s1 == StartIntercepting(Truncate(s0))
    IN  IF cfg.DryRun
          THEN SuiteNodeReturn(w, [s0 EXCEPT !.cur.State = "Passed"])
        ELSE IF node.type = "SynchronizedBeforeSuite"
          THEN IF w = 1
                 THEN StartNode(s1, node, c, "sbsProduce", <<>>)
                 ELSE [s1 EXCEPT !.pc = "sbsBlock"]
        ELSE IF node.type = "SynchronizedAfterSuite"
          THEN StartNode(s1, node, c, "sasAll", <<>>)
        ELSE StartNode(s1, node, c, "suitePlain", <<>>)

\* Lines 525-535
AfterSuiteGate(w, s) ==
    LET afterSuiteNode == FirstNodeWithType(suiteNodes, AfterSuiteFamily)
        s1 == WillRun([s EXCEPT !.cur = NewSpecReport(afterSuiteNode.type,
                                                      afterSuiteNode.loc)])
    IN  IF ~IsZero(afterSuiteNode) /\ s.numSpecsThatWillBeRun > 0
          THEN EnterSuiteNode(w, s1, afterSuiteNode, Status(w).Channel, "after")
          ELSE FinishSuite(w, s)

\* Lines 519-523, after the spec loop has ended.
AfterLoop(w, s) ==
    AfterSuiteGate(w,
        IF HasAnySpecsMarkedPending(specs) /\ cfg.FailOnPending
          THEN [s EXCEPT
                  !.report.SpecialSuiteFailureReasons = Append(@, "pending specs"),
                  !.report.SuiteSucceeded = FALSE]
          ELSE s)

\* A start of runSpecs that runs a registered before-suite hook whatever
\* the interrupt status and the number of specs.
BeginRunSpecsUnguarded(w, s) ==
    LET n == CountWithoutSkip(specs)
        s1 == Emit(s, [e |-> "SuiteWillBegin"])
        s2 == IF Parallel THEN Emit(s1, [e |-> "PostSuiteWillBegin"]) ELSE s1
        interruptStatus == Status(w)
        s3 == [s2 EXCEPT !.numSpecsThatWillBeRun = n,
                         !.report.SuiteSucceeded = TRUE,
                         !.interruptStatus = interruptStatus]
        beforeSuiteNode == FirstNodeWithType(suiteNodes, BeforeSuiteFamily)
        s4 == WillRun([s3 EXCEPT !.cur = NewSpecReport(beforeSuiteNode.type,
                                                       beforeSuiteNode.loc)])
    IN  IF ~IsZero(beforeSuiteNode)
          THEN EnterSuiteNode(w, s4, beforeSuiteNode, interruptStatus.Channel, "before")
          ELSE LoopGate(w, s3)

\* Lines 416-461: runSpecs up to its first blocking point.
BeginRunSpecs(w, s) ==
    LET n == CountWithoutSkip(specs)
        s1 == Emit(s, [e |-> "SuiteWillBegin"])
        s2 == IF Parallel THEN Emit(s1, [e |-> "PostSuiteWillBegin"]) ELSE s1
        interruptStatus == Status(w)
        s3 == [s2 EXCEPT !.numSpecsThatWillBeRun = n,
                         !.report.SuiteSucceeded = TRUE,
                         !.interruptStatus = interruptStatus]
        beforeSuiteNode == FirstNodeWithType(suiteNodes, BeforeSuiteFamily)
        s4 == WillRun([s3 EXCEPT !.cur = NewSpecReport(beforeSuiteNode.type,
                                                       beforeSuiteNode.loc)])
    IN  IF ~IsZero(beforeSuiteNode) /\ ~interruptStatus.Interrupted /\ n > 0
          THEN EnterSuiteNode(w, s4, beforeSuiteNode, interruptStatus.Channel, "before")
          ELSE LoopGate(w, s3)

\* A folding rule without the clause for Aborted.
FoldPassedOnly(report, r) ==
    IF report.State = "Passed"
      THEN [report EXCEPT !.State = r.state, !.Failure = r.failure]
      ELSE report

\* The folding rule of lines 612-615 and 651-654: the result of a cleanup
\* or report node replaces the spec's state and failure if the spec has
\* passed so far or the node aborted.
Fold(report, r) ==
    IF report.State = "Passed" \/ r.state = "Aborted"
      THEN [report EXCEPT !.State = r.state, !.Failure = r.failure]
      ELSE report

\* History kept with a report: a node body yielded r.
Saw(report, r) ==
    [report EXCEPT !.hSawAbort = @ \/ r.state = "Aborted", !.hLast = r]

\* Lines 509-516: the end of one turn of the spec loop.
SpecDone(w, s) ==
    LET s1 == processSpecReport(s)
        s2 == [s1 EXCEPT !.suiteAborted = @ \/ s.cur.State = "Aborted"]
        s3 == IF Parallel /\ (s2.suiteAborted
                              \/ (cfg.FailFast /\ ~s2.report.SuiteSucceeded))
                THEN Emit(s2, [e |-> "PostAbort"])
                ELSE s2
    IN  [s3 EXCEPT !.cur = ZeroSpecReport, !.pc = "nextIndex"]

\* A ReportAfterEach node that is handed the handler's channel.
NextReportAfterEachInterruptible(w, s, todo) ==
    IF todo = <<>> THEN SpecDone(w, s)
    ELSE [StartNode(StartIntercepting(Truncate(s)), Head(todo), Status(w).Channel,
                    "rae", Tail(todo))
            EXCEPT !.placeholder = TRUE]

\* Lines 638-649: the next ReportAfterEach node, if any.
NextReportAfterEach(w, s, todo) ==
    IF todo = <<>> THEN SpecDone(w, s)
    ELSE [StartNode(StartIntercepting(Truncate(s)), Head(todo), NilChan, "rae",
                    Tail(todo))
            EXCEPT !.placeholder = TRUE]

\* Lines 633-636
EnterReportAfterEach(w, s) ==
    NextReportAfterEach(w, s,
        SortedByDescendingNestingLevel(WithType(s.spec.nodes, {"ReportAfterEach"})))

RECURSIVE StartAttempt(_, _)

\* An end of an attempt that does not ask the interrupt handler.
EndAttemptIgnoringInterrupt(w, s) ==
    LET s1 == StopIntercepting(
                  [s EXCEPT !.cur.CapturedGinkgoWriterOutput = s.writer,
                            !.hAttempts = Append(@, s.cur.State)])
    IN  IF s1.cur.State = "Passed" THEN EnterReportAfterEach(w, s1)
        ELSE IF s.attempt + 1 < s.maxAttempts
          THEN StartAttempt(w, [s1 EXCEPT !.attempt = @ + 1])
        ELSE EnterReportAfterEach(w, s1)

\* Lines 618-629: the end of an attempt.
EndAttempt(w, s) ==
    LET s1 == StopIntercepting(
                  [s EXCEPT !.cur.CapturedGinkgoWriterOutput = s.writer,
                            !.hAttempts = Append(@, s.cur.State)])
    IN  IF s1.cur.State = "Passed" THEN EnterReportAfterEach(w, s1)
        ELSE IF Status(w).Interrupted THEN EnterReportAfterEach(w, s1)
        ELSE IF s.attempt + 1 < s.maxAttempts
          THEN StartAttempt(w, [s1 EXCEPT !.attempt = @ + 1])
        ELSE EnterReportAfterEach(w, s1)

\* Lines 609-610: the next cleanup node, with the handler's channel of now.
NextCleanupNode(w, s, todo) ==
    IF todo = <<>> THEN EndAttempt(w, s)
    ELSE StartNode(s, Head(todo), Status(w).Channel, "cleanup", Tail(todo))

\* Cleanup that is not scoped to the deepest level attained.
EnterCleanupUnscoped(w, s) ==
    NextCleanupNode(w, s,
        SortedByDescendingNestingLevel(WithType(s.spec.nodes, {"JustAfterEach"}))
          \o SortedByDescendingNestingLevel(WithType(s.spec.nodes, {"AfterEach"})))

\* Lines 606-608
EnterCleanup(w, s) ==
    LET cleanUpNodes ==
            WithinNestingLevel(
                SortedByDescendingNestingLevel(WithType(s.spec.nodes, {"JustAfterEach"}))
                  \o SortedByDescendingNestingLevel(WithType(s.spec.nodes, {"AfterEach"})),
                s.deepest)
    IN  NextCleanupNode(w, s, cleanUpNodes)

\* A setup loop that keeps the level of the node it runs, not the deepest.
NextSetupNodeLastLevel(w, s, todo) ==
    IF todo = <<>> THEN EnterCleanup(w, s)
    ELSE [StartNode(s, Head(todo), s.attemptStatus.Channel, "setup", Tail(todo))
            EXCEPT !.deepest = Head(todo).level]

\* Lines 597-599: the next setup or subject node, with the attempt's channel.
NextSetupNode(w, s, todo) ==
    IF todo = <<>> THEN EnterCleanup(w, s)
    ELSE [StartNode(s, Head(todo), s.attemptStatus.Channel, "setup", Tail(todo))
            EXCEPT !.deepest = Max(@, Head(todo).level)]

\* An attempt that starts with an emptied writer.
StartAttemptTruncating(w, s) ==
    LET s1 == [s EXCEPT
                 !.cur.NumAttempts = s.attempt + 1,
                 !.writer = IF s.attempt > 0
                              THEN <<[t |-> "Retrying", n |-> s.attempt]>>
                              ELSE <<>>,
                 !.attemptStatus = Status(w),
                 !.deepest = -1,
                 !.ran = <<>>]
        nodes == SortedByAscendingNestingLevel(WithType(s.spec.nodes, {"BeforeEach"}))
                   \o SortedByAscendingNestingLevel(WithType(s.spec.nodes, {"JustBeforeEach"}))
                   \o WithType(s.spec.nodes, {"It"})
    IN  NextSetupNode(w, s1, nodes)

\* Lines 585-595: the start of attempt s.attempt.
StartAttempt(w, s) ==
    LET s1 == [s EXCEPT
                 !.cur.NumAttempts = s.attempt + 1,
                 !.writer = IF s.attempt > 0
                              THEN Append(@, [t |-> "Retrying", n |-> s.attempt])
                              ELSE @,
                 !.attemptStatus = Status(w),
                 !.deepest = -1,
                 !.ran = <<>>]
        nodes == SortedByAscendingNestingLevel(WithType(s.spec.nodes, {"BeforeEach"}))
                   \o SortedByAscendingNestingLevel(WithType(s.spec.nodes, {"JustBeforeEach"}))
                   \o WithType(s.spec.nodes, {"It"})
    IN  NextSetupNode(w, s1, nodes)

\* Lines 579-582
MaxAttemptsOf(spec) ==
    IF cfg.FlakeAttempts > 0 THEN cfg.FlakeAttempts ELSE Max(1, spec.flake)

\* Lines 571-584: runSpec up to its first node.
EnterRunSpec(w, s) ==
    IF cfg.DryRun
      THEN EnterReportAfterEach(w, [s EXCEPT !.cur.State = "Passed"])
      ELSE StartAttempt(w,
               [StartIntercepting(Truncate(s)) EXCEPT
                  !.maxAttempts = MaxAttemptsOf(s.spec), !.attempt = 0])

\* Taking up a spec without regard to FailFast.
TakeSpecNoFailFast(w, s, idx) ==
    LET spec == specs[idx + 1]
        skip == spec.skip \/ Status(w).Interrupted \/ s.suiteAborted
        it == FirstNodeWithType(spec.nodes, {"It"})
        r0 == NewSpecReport("It", it.loc)
        r1 == IF skip
                THEN [r0 EXCEPT !.State = IF spec.pending THEN "Pending" ELSE "Skipped"]
                ELSE r0
        s1 == WillRun([s EXCEPT !.idx = idx, !.cur = r1, !.ran = <<>>,
                                !.hAttempts = <<>>,
                                !.hTaken = Append(@, idx),
                                !.spec = [spec EXCEPT !.skip = skip]])
    IN  IF ~skip THEN EnterRunSpec(w, s1) ELSE EnterReportAfterEach(w, s1)

\* Lines 478-508: the spec at index idx is taken up.
TakeSpec(w, s, idx) ==
    LET spec == specs[idx + 1]
        skip == spec.skip
                  \/ (cfg.FailFast /\ ~s.report.SuiteSucceeded)
                  \/ Status(w).Interrupted
                  \/ s.suiteAborted
        it == FirstNodeWithType(spec.nodes, {"It"})
        r0 == NewSpecReport("It", it.loc)
        r1 == IF skip
                THEN [r0 EXCEPT !.State = IF spec.pending THEN "Pending" ELSE "Skipped"]
                ELSE r0
        s1 == WillRun([s EXCEPT !.idx = idx, !.cur = r1, !.ran = <<>>,
                                !.hAttempts = <<>>,
                                !.hTaken = Append(@, idx),
                                !.spec = [spec EXCEPT !.skip = skip]])
    IN  IF ~skip THEN EnterRunSpec(w, s1) ELSE EnterReportAfterEach(w, s1)

(***************************************************************************)
(* The steps of a worker.  Each action is one blocking point coming to an  *)
(* end (a node body's result arriving at runNode's select, or a call of    *)
(* the coordination service returning) together with all the code up to    *)
(* the next blocking point.                                                *)
(***************************************************************************)
NewEvents(s, s2) == SubSeq(s2.events, Len(s.events) + 1, Len(s2.events))
Posts(s, s2, e) == \E i \in 1 .. Len(NewEvents(s, s2)) : NewEvents(s, s2)[i].e = e

\* The service after worker w's posts of this step: an abort is noted, and
\* a worker that posted its final report has finished.
Posted(w, s, s2, sv) ==
    [sv EXCEPT !.aborted = @ \/ Posts(s, s2, "PostAbort"),
               !.finished = IF Posts(s, s2, "PostSuiteDidEnd") THEN @ \cup {w} ELSE @]

Step(w, s2, sv) ==
    /\ wk' = [wk EXCEPT ![w] = s2]
    /\ srv' = Posted(w, wk[w], s2, sv)

Running(w, ctx) == wk[w].pc = "node" /\ wk[w].ctx = ctx
SetResult(s, r) == [s EXCEPT !.cur = Saw([@ EXCEPT !.State = r.state, !.Failure = r.failure], r)]
StartConsume(s, d) ==
    [StartNode(s, s.node, s.chan, "sbsConsume", <<>>) EXCEPT
       !.data = d, !.consumed = Append(@, d)]

runSpecs(w) ==
    /\ wk[w].pc = "start"
    /\ Step(w, BeginRunSpecs(w, wk[w]), srv)
    /\ UNCHANGED <<buildVars, handler, nodeVars, cfg, specs>>

\* Lines 673: a BeforeSuite or AfterSuite body has been run.
FinishSuiteNode(w) ==
    /\ Running(w, "suitePlain")
    /\ \E r \in NodeResults(w, wk[w].node, wk[w].chan) :
         Step(w, SuiteNodeEnd(w, SetResult(wk[w], r)), srv)
    /\ UNCHANGED <<buildVars, handler, nodeVars, cfg, specs>>

\* Lines 678-680 and, in a serial run, 685-692: the produce body has been
\* run and has returned d.
FinishProduce(w) ==
    /\ Running(w, "sbsProduce")
    /\ \E r \in NodeResults(w, wk[w].node, wk[w].chan), d \in DataValues :
         LET s1 == SetResult(wk[w], r)
             s2 == [s1 EXCEPT !.data = IF r.state = "Passed" THEN d ELSE @,
                              !.hSync.produce = r.state,
                              !.hSync.data = IF r.state = "Passed" THEN d ELSE @]
         IN  Step(w,
                  IF Parallel THEN [s2 EXCEPT !.pc = "sbsPost"]
                  ELSE IF r.state = "Passed" THEN StartConsume(s2, s2.data)
                  ELSE SuiteNodeEnd(w, s2),
                  srv)
    /\ UNCHANGED <<buildVars, handler, nodeVars, cfg, specs>>

\* A primary worker that runs the consume body whatever the post returns.
PostSynchronizedBeforeSuiteIgnoringError(w) ==
    /\ wk[w].pc = "sbsPost"
    /\ \E delivered \in BOOLEAN :
         LET s == wk[w]
             passed == s.cur.State = "Passed"
             s1 == [s EXCEPT !.err = ~delivered,
                             !.hSync.post = IF delivered THEN "ok" ELSE "err"]
             sv == IF ~delivered THEN srv
                   ELSE IF passed THEN [srv EXCEPT !.bss = "passed", !.data = s.data]
                   ELSE [srv EXCEPT !.bss = "failed"]
         IN  Step(w,
                  IF passed THEN StartConsume(s1, s.data)
                  ELSE SuiteNodeEnd(w, s1),
                  sv)
    /\ UNCHANGED <<buildVars, handler, nodeVars, cfg, specs>>

\* Lines 680-692 on the primary worker of a parallel run: the outcome of
\* the produce body is posted; the post is delivered, or it returns an error.
PostSynchronizedBeforeSuite(w) ==
    /\ wk[w].pc = "sbsPost"
    /\ \E delivered \in BOOLEAN :
         LET s == wk[w]
             passed == s.cur.State = "Passed"
             s1 == [s EXCEPT !.err = ~delivered,
                             !.hSync.post = IF delivered THEN "ok" ELSE "err"]
             sv == IF ~delivered THEN srv
                   ELSE IF passed THEN [srv EXCEPT !.bss = "passed", !.data = s.data]
                   ELSE [srv EXCEPT !.bss = "failed"]
         IN  Step(w,
                  IF passed /\ delivered THEN StartConsume(s1, s.data)
                  ELSE SuiteNodeEnd(w, s1),
                  sv)
    /\ UNCHANGED <<buildVars, handler, nodeVars, cfg, specs>>

\* Lines 687-692 on a non-primary worker: the call returns the data once
\* the primary's success is known, and an error once its failure is known
\* or when the service cannot be reached.
BlockUntilSynchronizedBeforeSuiteData(w) ==
    /\ wk[w].pc = "sbsBlock"
    /\ \E ok \in BOOLEAN :
         /\ ok => srv.bss = "passed"
         /\ Step(w,
                 IF ok THEN StartConsume(wk[w], srv.data)
                 ELSE SuiteNodeEnd(w, [wk[w] EXCEPT !.err = TRUE]),
                 srv)
    /\ UNCHANGED <<buildVars, handler, nodeVars, cfg, specs>>

\* Line 692: the consume body has been run.
FinishConsume(w) ==
    /\ Running(w, "sbsConsume")
    /\ \E r \in NodeResults(w, wk[w].node, wk[w].chan) :
         Step(w, SuiteNodeEnd(w, SetResult(wk[w], r)), srv)
    /\ UNCHANGED <<buildVars, handler, nodeVars, cfg, specs>>

\* Lines 695-703: the all-nodes body of SynchronizedAfterSuite has been run.
FinishAfterSuiteAllNodes(w) ==
    /\ Running(w, "sasAll")
    /\ \E r \in NodeResults(w, wk[w].node, wk[w].chan) :
         LET s1 == [SetResult(wk[w], r) EXCEPT !.hAfter.all = r]
         IN  Step(w,
                  IF w # 1 THEN SuiteNodeEnd(w, s1)
                  ELSE IF Parallel THEN [s1 EXCEPT !.pc = "sasBlock"]
                  ELSE StartNode(s1, s1.node, s1.chan, "sasNode1", <<>>),
                  srv)
    /\ UNCHANGED <<buildVars, handler, nodeVars, cfg, specs>>

\* Lines 699-703: the primary worker waits for the other workers.
BlockUntilNonprimaryNodesHaveFinished(w) ==
    /\ wk[w].pc = "sasBlock"
    /\ \E ok \in BOOLEAN :
         /\ ok => Workers \ {1} \subseteq srv.finished
         /\ Step(w,
                 IF ok THEN StartNode([wk[w] EXCEPT !.hAfter.wait = "ok"],
                                      wk[w].node, wk[w].chan, "sasNode1", <<>>)
                 ELSE SuiteNodeEnd(w, [wk[w] EXCEPT !.err = TRUE,
                                                    !.hAfter.wait = "err"]),
                 srv)
    /\ UNCHANGED <<buildVars, handler, nodeVars, cfg, specs>>

\* A final teardown whose result always replaces that of the all-nodes stage.
FinishAfterSuiteNode1Overwriting(w) ==
    /\ Running(w, "sasNode1")
    /\ \E r \in NodeResults(w, wk[w].node, wk[w].chan) :
         LET s == wk[w]
             s1 == [s EXCEPT !.cur = Saw([@ EXCEPT !.State = r.state,
                                                   !.Failure = r.failure], r),
                             !.hAfter.final = r]
         IN  Step(w, SuiteNodeEnd(w, s1), srv)
    /\ UNCHANGED <<buildVars, handler, nodeVars, cfg, specs>>

\* Lines 703-706: the primary-only body of SynchronizedAfterSuite has been run.
FinishAfterSuiteNode1(w) ==
    /\ Running(w, "sasNode1")
    /\ \E r \in NodeResults(w, wk[w].node, wk[w].chan) :
         LET s == wk[w]
             s1 == [s EXCEPT !.cur = Saw(IF s.cur.State = "Passed"
                                           THEN [@ EXCEPT !.State = r.state,
                                                          !.Failure = r.failure]
                                           ELSE @, r),
                             !.hAfter.final = r]
         IN  Step(w, SuiteNodeEnd(w, s1), srv)
    /\ UNCHANGED <<buildVars, handler, nodeVars, cfg, specs>>

\* An error of nextIndex that leaves no trace in the report.
IterationFailedSilently(s) == s

\* Lines 470-471: nextIndex has returned an error.
IterationFailed(s) ==
    [s EXCEPT
       !.report.SpecialSuiteFailureReasons = Append(@, "failed to iterate over specs"),
       !.report.SuiteSucceeded = FALSE]

\* A spec loop that counts locally in a parallel run too.
nextIndexLocal(w) ==
    /\ wk[w].pc = "nextIndex"
    /\ \E ok \in BOOLEAN :
         LET s == wk[w]
             idx == s.counter
             s1 == [s EXCEPT !.counter = @ + 1]
         IN  /\ ~ok => Parallel
             /\ Step(w,
                     IF ~ok
                       THEN AfterLoop(w, [IterationFailed(s) EXCEPT !.hLoop = "error"])
                     ELSE IF idx >= Len(specs)
                       THEN AfterLoop(w, [s1 EXCEPT !.hLoop = "exhausted"])
                     ELSE TakeSpec(w, s1, idx),
                     srv)
    /\ UNCHANGED <<buildVars, handler, nodeVars, cfg, specs>>

\* Lines 468-476 with MakeNextIndexCounter: a serial run counts locally, a
\* parallel run fetches and increments the shared counter, which can fail.
nextIndex(w) ==
    /\ wk[w].pc = "nextIndex"
    /\ \E ok \in BOOLEAN :
         LET s == wk[w]
             idx == IF Parallel THEN srv.counter ELSE s.counter
             s1 == [s EXCEPT !.counter = IF Parallel THEN @ ELSE @ + 1]
             sv == IF Parallel /\ ok THEN [srv EXCEPT !.counter = @ + 1] ELSE srv
         IN  /\ ~ok => Parallel
             /\ Step(w,
                     IF ~ok
                       THEN AfterLoop(w, [IterationFailed(s) EXCEPT !.hLoop = "error"])
                     ELSE IF idx >= Len(specs)
                       THEN AfterLoop(w, [s1 EXCEPT !.hLoop = "exhausted"])
                     ELSE TakeSpec(w, s1, idx),
                     sv)
    /\ UNCHANGED <<buildVars, handler, nodeVars, cfg, specs>>

\* A setup loop that goes on whatever a node returns.
FinishSetupNodeNoBreak(w) ==
    /\ Running(w, "setup")
    /\ \E r \in NodeResults(w, wk[w].node, wk[w].chan) :
         LET s1 == SetResult(wk[w], r)
         IN  Step(w, NextSetupNode(w, s1, s1.todo), srv)
    /\ UNCHANGED <<buildVars, handler, nodeVars, cfg, specs>>

\* Lines 599-604: a BeforeEach, JustBeforeEach or It body has been run.
FinishSetupNode(w) ==
    /\ Running(w, "setup")
    /\ \E r \in NodeResults(w, wk[w].node, wk[w].chan) :
         LET s1 == SetResult(wk[w], r)
         IN  Step(w,
                  IF r.state # "Passed" THEN EnterCleanup(w, s1)
                  ELSE NextSetupNode(w, s1, s1.todo),
                  srv)
    /\ UNCHANGED <<buildVars, handler, nodeVars, cfg, specs>>

\* Lines 610-616: a JustAfterEach or AfterEach body has been run.
FinishCleanupNode(w) ==
    /\ Running(w, "cleanup")
    /\ \E r \in NodeResults(w, wk[w].node, wk[w].chan) :
         LET s1 == [wk[w] EXCEPT !.cur = Saw(Fold(@, r), r)]
         IN  Step(w, NextCleanupNode(w, s1, s1.todo), srv)
    /\ UNCHANGED <<buildVars, handler, nodeVars, cfg, specs>>

\* Lines 649-656: a ReportAfterEach body has been run.
FinishReportAfterEachNode(w) ==
    /\ Running(w, "rae")
    /\ \E r \in NodeResults(w, wk[w].node, wk[w].chan) :
         LET s == wk[w]
             s1 == [s EXCEPT
                      !.placeholder = FALSE,
                      !.cur = [Saw(Fold(@, r), r) EXCEPT
                                 !.CapturedGinkgoWriterOutput = @ \o s.writer]]
         IN  Step(w, NextReportAfterEach(w, StopIntercepting(s1), s1.todo), srv)
    /\ UNCHANGED <<buildVars, handler, nodeVars, cfg, specs>>

\* Lines 733-747: the primary worker waits for the other workers' reports.
BlockUntilAggregatedNonprimaryNodesReport(w) ==
    /\ wk[w].pc = "rasBlock"
    /\ \E ok \in BOOLEAN :
         LET s == wk[w]
             r == failureForLeafNodeWithError(s.node, "communication error")
             s1 == [s EXCEPT !.cur.State = r.state, !.cur.Failure = r.failure]
         IN  /\ ok => Workers \ {1} \subseteq srv.finished
             /\ Step(w,
                     IF ok THEN [StartNode(s, s.node, NilChan, "ras", s.todo)
                                   EXCEPT !.placeholder = TRUE]
                     ELSE NextReportAfterSuite(w, processSpecReport(s1), s.todo),
                     srv)
    /\ UNCHANGED <<buildVars, handler, nodeVars, cfg, specs>>

\* Lines 747-755 and 555: a ReportAfterSuite body has been run.
FinishReportAfterSuiteNode(w) ==
    /\ Running(w, "ras")
    /\ \E r \in NodeResults(w, wk[w].node, wk[w].chan) :
         LET s == wk[w]
             s1 == [SetResult(s, r) EXCEPT
                      !.placeholder = FALSE,
                      !.cur.CapturedGinkgoWriterOutput = s.writer]
         IN  Step(w,
                  NextReportAfterSuite(w, processSpecReport(StopIntercepting(s1)),
                                       s.todo),
                  srv)
    /\ UNCHANGED <<buildVars, handler, nodeVars, cfg, specs>>

\* The interrupt handler of worker w receives a signal.
Interrupt(w) ==
    /\ wk[w].pc \notin {"off", "done"}
    /\ handler[w].chan < MaxInterrupts
    /\ handler' = [handler EXCEPT ![w] = DeliverInterrupt(@)]
    /\ UNCHANGED <<buildVars, nodeVars, cfg, specs, wk, srv>>

\* The other workers of a parallel run, seen from the primary worker: one
\* of them takes a spec index, or posts its final report.
PeerTakesIndex ==
    /\ Parallel
    /\ srv.counter < Len(specs)
    /\ srv' = [srv EXCEPT !.counter = @ + 1]
    /\ UNCHANGED <<buildVars, handler, nodeVars, cfg, specs, wk>>

PeerFinishes ==
    /\ Parallel
    /\ \E p \in Workers \ {1} :
         /\ wk[p].pc = "off"
         /\ p \notin srv.finished
         /\ srv' = [srv EXCEPT !.finished = @ \cup {p}]
    /\ UNCHANGED <<buildVars, handler, nodeVars, cfg, specs, wk>>

WorkerStep(w) ==
    \/ runSpecs(w)
    \/ FinishSuiteNode(w)
    \/ FinishProduce(w)
    \/ PostSynchronizedBeforeSuite(w)
    \/ FinishConsume(w)
    \/ FinishAfterSuiteAllNodes(w)
    \/ BlockUntilNonprimaryNodesHaveFinished(w)
    \/ FinishAfterSuiteNode1(w)
    \/ nextIndex(w)
    \/ FinishSetupNode(w)
    \/ FinishCleanupNode(w)
    \/ FinishReportAfterEachNode(w)
    \/ BlockUntilAggregatedNonprimaryNodesReport(w)
    \/ FinishReportAfterSuiteNode(w)
    \/ Interrupt(w)

\* A worker that is not the primary one waits for the produce step.
NonprimaryStep(w) == BlockUntilSynchronizedBeforeSuiteData(w)

(***************************************************************************)
(* The suites that are run                                                 *)
(***************************************************************************)
Config(failFast, dryRun, total, flake, failOnPending) ==
    [FailFast |-> failFast, DryRun |-> dryRun, ParallelTotal |-> total,
     FlakeAttempts |-> flake, FailOnPending |-> failOnPending]

\* One spec nested two containers deep with setup, cleanup and report
\* nodes at several levels, in the order of the tree.
NestedNodes ==
    << RNode("BeforeEach", 0, "be0"), RNode("AfterEach", 0, "ae0"),
       RNode("ReportAfterEach", 0, "rae0"), RNode("BeforeEach", 1, "be1"),
       RNode("JustAfterEach", 1, "jae1"), RNode("AfterEach", 2, "ae2"),
       RNode("It", 2, "it") >>

\* The nested spec with a JustBeforeEach node registered in the outermost
\* container, ahead of the deeper BeforeEach node.
OrderedNodes ==
    <<NestedNodes[1], RNode("JustBeforeEach", 0, "jbe0")>>
        \o SubSeq(NestedNodes, 2, Len(NestedNodes))

PlainSpec == Spec(<<RNode("It", 0, "it1")>>, FALSE, FALSE, 0)
ReportedSpec ==
    Spec(<<RNode("ReportAfterEach", 0, "rae"), RNode("AfterEach", 0, "ae"),
           RNode("It", 0, "it2")>>, FALSE, FALSE, 0)
\* A spec with a node marked pending arrives with its Skip flag set.
PendingSpec ==
    Spec(<<RNode("ReportAfterEach", 0, "rae"), RNode("It", 0, "it3")>>, TRUE, TRUE, 0)
SkippedSpec == Spec(<<RNode("It", 0, "it4")>>, TRUE, FALSE, 0)

SpecLists ==
    { <<SkippedSpec>>, <<PlainSpec, ReportedSpec>>,
      <<PlainSpec, PendingSpec, ReportedSpec>> }

SuiteNodeLists ==
    { <<>>,
      <<Leaf("BeforeSuite", "s1"), Leaf("AfterSuite", "s1")>>,
      <<Leaf("SynchronizedBeforeSuite", "s2"), Leaf("SynchronizedAfterSuite", "s2"),
        Leaf("ReportAfterSuite", "s3")>> }

\* Retries: the nested spec alone under every configured number of
\* attempts, and with a flake decoration under the least and the greatest.
RetryInputs ==
    { [cfg |-> Config(FALSE, FALSE, 1, p[1], FALSE),
       specs |-> <<Spec(NestedNodes, FALSE, FALSE, p[2])>>,
       suiteNodes |-> <<>>] :
        p \in {q \in (0 .. MaxFlakeAttempts) \X {0, 2} :
                 q[2] = 0 \/ q[1] \in {0, MaxFlakeAttempts}} }

\* Ordering: the spec with nodes of all five types, run once.
OrderInputs ==
    { [cfg |-> Config(FALSE, FALSE, 1, 0, FALSE),
       specs |-> <<Spec(OrderedNodes, FALSE, FALSE, 0)>>,
       suiteNodes |-> <<>>] }

\* Suites: several specs with suite hooks, serial or parallel, with and
\* without FailFast, and one configuration each for DryRun and FailOnPending.
SuiteInputs ==
    { [cfg |-> c, specs |-> ss, suiteNodes |-> sn] :
        c \in {Config(ff, FALSE, t, 0, FALSE) : ff \in BOOLEAN, t \in {1, NumWorkers}}
                \cup {Config(FALSE, TRUE, 1, 0, FALSE), Config(FALSE, FALSE, 1, 0, TRUE)},
        ss \in SpecLists, sn \in SuiteNodeLists }

InitRunWith(inputs, workers) ==
    /\ \E in \in inputs :
         /\ cfg = in.cfg
         /\ specs = in.specs
         /\ suiteNodes = in.suiteNodes
    /\ wk = [w \in Workers |-> IF w \in workers THEN InitWorker ELSE OffWorker]
    /\ srv = InitServer
    /\ handler = [w \in Workers |-> InitHandler]
    /\ failer = InitFailer
    /\ main = [pc |-> "idle"]
    /\ tasks = <<>>
    /\ phase = PhaseRun
    /\ tree = TreeNode(ZeroNode)
    /\ topLevelContainers = <<>>
    /\ lastCall = [op |-> "Run", err |-> NoErr]
    /\ nCalls = 0

\* The primary worker's run, the other workers being its environment.
InitRun == InitRunWith(RetryInputs \cup OrderInputs \cup SuiteInputs, {1})

NextRun ==
    \/ WorkerStep(1)
    \/ PeerTakesIndex
    \/ PeerFinishes

SpecRun == InitRun /\ [][NextRun]_vars

\* All workers of a parallel run up to the end of the before-suite hook.
SyncInputs ==
    { [cfg |-> Config(FALSE, FALSE, NumWorkers, 0, FALSE),
       specs |-> <<PlainSpec>>,
       suiteNodes |-> sn] :
        sn \in { <<Leaf("SynchronizedBeforeSuite", "s2")>>,
                 <<Leaf("SynchronizedBeforeSuite", "s2"),
                   Leaf("SynchronizedAfterSuite", "s2")>> } }

InitSync == InitRunWith(SyncInputs, Workers)

NextSync ==
    \/ \E w \in Workers : runSpecs(w)
    \/ \E w \in Workers : FinishProduce(w)
    \/ \E w \in Workers : PostSynchronizedBeforeSuite(w)
    \/ \E w \in Workers : BlockUntilSynchronizedBeforeSuiteData(w)
    \/ \E w \in Workers : FinishConsume(w)
    \/ \E w \in Workers : Interrupt(w)

SpecSync == InitSync /\ [][NextSync]_vars

\* The same workers with a coordination service that answers a blocked
\* worker only once the primary worker's outcome has reached it, every
\* worker being scheduled again and again and every body coming to an end.
\* Interrupts arrive or not, as they please.
AnswerSynchronizedBeforeSuiteData(w) ==
    /\ srv.bss # "none"
    /\ BlockUntilSynchronizedBeforeSuiteData(w)

SyncStep(w) ==
    \/ runSpecs(w)
    \/ FinishProduce(w)
    \/ PostSynchronizedBeforeSuite(w)
    \/ AnswerSynchronizedBeforeSuiteData(w)
    \/ FinishConsume(w)

NextSyncLive ==
    \/ \E w \in Workers : SyncStep(w)
    \/ \E w \in Workers : Interrupt(w)

SpecSyncLive ==
    InitSync /\ [][NextSyncLive]_vars /\ \A w \in Workers : WF_vars(SyncStep(w))

\* All workers of a parallel run through the spec loop and the after-suite
\* hook, with specs that consist of an It.
OtherSpec == Spec(<<RNode("It", 0, "it5")>>, FALSE, FALSE, 0)

ParallelInputs ==
    { [cfg |-> Config(FALSE, FALSE, NumWorkers, 0, FALSE),
       specs |-> ss,
       suiteNodes |-> <<Leaf("SynchronizedAfterSuite", "s2")>>] :
        ss \in {<<PlainSpec>>, <<PlainSpec, OtherSpec>>} }

InitParallel == InitRunWith(ParallelInputs, Workers)

NextParallel ==
    \/ \E w \in Workers : runSpecs(w)
    \/ \E w \in Workers : nextIndex(w)
    \/ \E w \in Workers : FinishSetupNode(w)
    \/ \E w \in Workers : FinishAfterSuiteAllNodes(w)
    \/ \E w \in Workers : BlockUntilNonprimaryNodesHaveFinished(w)
    \/ \E w \in Workers : FinishAfterSuiteNode1(w)

SpecParallel == InitParallel /\ [][NextParallel]_vars

\* What the recorder hands to the deferred function of a task whose body
\* ended in the way how, when no other task touches the recorder.
OwnFailure(how) ==
    LET f == FailerAfterBody(InitFailer, how)
    IN  IF how # "return" THEN Record(f, "Failed", "panic", TRUE) ELSE f

\* The call in progress follows a call whose task was abandoned: the
\* interrupt won that call's race, its task never handed over a failure.
AfterAbandonedTask == \E i \in 1 .. cur - 1 : tasks[i].pc # "done"

\* C18: after the interrupt has won the race for a node N, the abandoned
\* task of N has no effect on later results: the state and failure runNode
\* returns for a node run after N are those its own body gives rise to.
C18_AbandonedTaskHasNoEffect ==
    (/\ main.pc = "returned"
     /\ main.ret.state # "Interrupted"
     /\ AfterAbandonedTask)
    => main.ret = OutcomeResult(main.node, OwnFailure(tasks[cur].how).state,
                                OwnFailure(tasks[cur].how))

(***************************************************************************)
(* Claims about runSpecs, runSpec and the hooks                            *)
(***************************************************************************)
SetupTypes == {"BeforeEach", "JustBeforeEach", "It"}
CleanupTypes == {"JustAfterEach", "AfterEach"}
Active == {w \in Workers : wk[w].pc # "off"}
RanOfType(w, ts) == {i \in 1 .. Len(wk[w].ran) : wk[w].ran[i].type \in ts}

\* C4: in every attempt, each AfterEach or JustAfterEach node that is run
\* has a nesting level at most that of the deepest BeforeEach,
\* JustBeforeEach or It node run in the same attempt.
C4_CleanupScoped ==
    \A w \in Active :
      \A i \in RanOfType(w, CleanupTypes) :
        \E j \in RanOfType(w, SetupTypes) :
          wk[w].ran[i].level <= wk[w].ran[j].level

\* A retry in which setup stopped at the outer level: the outer cleanup
\* has been run and the attempt is over, the inner cleanup was left out.
C4_Witness ==
    /\ wk[1].pc = "node" /\ wk[1].ctx = "rae" /\ wk[1].attempt = 1
    /\ \E i \in RanOfType(1, CleanupTypes) : wk[1].ran[i].loc = "ae0"
    /\ \A i \in RanOfType(1, SetupTypes) : wk[1].ran[i].level = 0
    /\ \A i \in RanOfType(1, CleanupTypes) : wk[1].ran[i].level = 0

\* runSpec has just returned to runSpecs: the first report hook of a spec
\* that was not skipped is being run.
RunSpecReturned(w) ==
    /\ wk[w].pc = "node" /\ wk[w].ctx = "rae"
    /\ ~wk[w].spec.skip
    /\ Len(wk[w].todo) + 1 = Len(WithType(wk[w].spec.nodes, {"ReportAfterEach"}))

FirstPassed(h) == CHOOSE i \in 1 .. Len(h) : h[i] = "Passed" /\ \A j \in 1 .. i - 1 : h[j] # "Passed"
Retrying(out) == SelectSeq(out, LAMBDA n : n.t = "Retrying")

\* C5: with no interrupt, if attempt k (counting from 0) is the first
\* attempt of a spec to end Passed, runSpec leaves a report with
\* NumAttempts = k+1, state Passed, and exactly k "Retrying" notices (for
\* the attempts 1..k) in the captured writer output.
C5_AttemptsAndNotices ==
    \A w \in Active :
      (/\ RunSpecReturned(w)
       /\ ~Status(w).Interrupted
       /\ \E i \in 1 .. Len(wk[w].hAttempts) : wk[w].hAttempts[i] = "Passed")
      => LET k == FirstPassed(wk[w].hAttempts) - 1
         IN  /\ k < wk[w].maxAttempts
             /\ wk[w].cur.NumAttempts = k + 1
             /\ wk[w].cur.State = "Passed"
             /\ Retrying(wk[w].cur.CapturedGinkgoWriterOutput)
                  = [i \in 1 .. k |-> [t |-> "Retrying", n |-> i]]

\* A spec has passed on its second attempt.
C5_Witness ==
    /\ RunSpecReturned(1)
    /\ ~Status(1).Interrupted
    /\ wk[1].hAttempts = <<"Failed", "Passed">>

Reports(w) == wk[w].report.SpecReports
IsFailure(r) == r.State \in FailureStates

\* The spec a report of an It is about.
SpecOf(r) ==
    CHOOSE sp \in {specs[i] : i \in 1 .. Len(specs)} :
      FirstNodeWithType(sp.nodes, {"It"}).loc = r.LeafNodeLocation

AfterSuiteRegistered == ~IsZero(FirstNodeWithType(suiteNodes, AfterSuiteFamily))
AfterSuiteReported(w) ==
    \E j \in 1 .. Len(Reports(w)) : Reports(w)[j].LeafNodeType \in AfterSuiteFamily

\* The part of C8 about the AfterSuite hook: once the worker is done, a
\* registered AfterSuite hook has been run if the count of specs that will
\* be run was positive.
AfterSuiteStillRun(w) ==
    (/\ wk[w].pc = "done"
     /\ \E i \in 1 .. Len(Reports(w)) : IsFailure(Reports(w)[i])
     /\ AfterSuiteRegistered
     /\ wk[w].numSpecsThatWillBeRun > 0)
    => AfterSuiteReported(w)

\* The specs taken after a report with a failure state was processed.
TakenAfterFailure(w) ==
    {j \in 1 .. Len(Reports(w)) :
       /\ Reports(w)[j].LeafNodeType = "It"
       /\ \E i \in 1 .. j - 1 : IsFailure(Reports(w)[i])}

\* C8 as stated: with FailFast, once a report with a failure state has been
\* processed, every spec taken afterwards is reported Skipped and none of
\* its setup, It or cleanup bodies is run; the AfterSuite hook is still run
\* if one is registered and the count of specs to run was positive.
C8_SkippedAfterFailure ==
    \A w \in Active :
      cfg.FailFast =>
        /\ \A j \in TakenAfterFailure(w) :
             Reports(w)[j].State = "Skipped" /\ Reports(w)[j].hBodies = 0
        /\ AfterSuiteStillRun(w)

\* C8 as the code has it: with FailFast, once a report with a failure state
\* has been processed, none of the setup, It or cleanup bodies of a spec
\* taken afterwards is run, and the spec is reported Aborted if one of its
\* ReportAfterEach hooks aborted, else Pending if one of its nodes is marked
\* pending, else Skipped; the AfterSuite hook is still run if one is
\* registered and the count of specs to run was positive.
C8_NotRunAfterFailure ==
    \A w \in Active :
      cfg.FailFast =>
        /\ \A j \in TakenAfterFailure(w) :
             /\ Reports(w)[j].hBodies = 0
             /\ Reports(w)[j].State =
                  IF Reports(w)[j].hSawAbort THEN "Aborted"
                  ELSE IF SpecOf(Reports(w)[j]).pending THEN "Pending"
                  ELSE "Skipped"
        /\ AfterSuiteStillRun(w)

\* A FailFast run has ended in which the first spec failed, the pending
\* spec after it was reported Pending, the spec after that Skipped, and
\* the AfterSuite hook was run.
C8_Witness ==
    /\ cfg.FailFast
    /\ wk[1].pc = "done"
    /\ AfterSuiteRegistered
    /\ AfterSuiteReported(1)
    /\ \E i, j, k \in 1 .. Len(Reports(1)) :
         /\ i < j /\ j < k
         /\ Reports(1)[i].LeafNodeType = "It" /\ Reports(1)[i].State = "Failed"
         /\ Reports(1)[j].LeafNodeType = "It" /\ Reports(1)[j].State = "Pending"
         /\ Reports(1)[k].LeafNodeType = "It" /\ Reports(1)[k].State = "Skipped"

\* The report of the spec after worker w's step: the one just processed, if
\* the step processed one, else the current one.
ReportAfterStep(w) ==
    IF Len(wk'[w].report.SpecReports) > Len(wk[w].report.SpecReports)
      THEN wk'[w].report.SpecReports[Len(wk[w].report.SpecReports) + 1]
      ELSE wk'[w].cur

\* C9: after each cleanup node and each ReportAfterEach hook of a spec, the
\* spec's recorded state and failure are the node's outcome if the recorded
\* state before the node was Passed or the outcome is Aborted, and are
\* otherwise what they were before the node.
C9_FoldingRule ==
    [][\A w \in Active :
         (/\ wk[w].pc = "node"
          /\ wk[w].ctx \in {"cleanup", "rae"}
          /\ wk'[w] # wk[w])
         => LET before == wk[w].cur
                after == ReportAfterStep(w)
                r == after.hLast
            IN  IF before.State = "Passed" \/ r.state = "Aborted"
                  THEN after.State = r.state /\ after.Failure = r.failure
                  ELSE after.State = before.State /\ after.Failure = before.Failure]_vars

\* A cleanup node aborted a spec, and a later cleanup node that failed has
\* left that as it was.
C9_Witness ==
    /\ wk[1].pc = "node" /\ wk[1].ctx = "rae"
    /\ wk[1].cur.State = "Aborted"
    /\ wk[1].cur.Failure.nodeType = "JustAfterEach"
    /\ wk[1].cur.hLast.state = "Failed"

\* C10: if a node run for a spec (setup, It, cleanup or ReportAfterEach)
\* yields Aborted, the report of the spec handed to the reporter has state
\* Aborted.
C10_AbortNeverMasked ==
    \A w \in Active :
      \A j \in 1 .. Len(Reports(w)) :
        (Reports(w)[j].LeafNodeType = "It" /\ Reports(w)[j].hSawAbort)
          => Reports(w)[j].State = "Aborted"

(***************************************************************************)
(* Claims about SynchronizedBeforeSuite                                    *)
(***************************************************************************)
\* C7: a non-primary worker runs the consume body only after the primary
\* worker's produce body has passed and its data was posted, and with
\* exactly that data; if the produce body does not pass or the post returns
\* an error, no worker runs the consume body.
C7_SynchronizedBeforeSuite ==
    /\ \A w \in Workers \ {1} :
         \A i \in 1 .. Len(wk[w].consumed) :
           /\ wk[1].hSync.produce = "Passed"
           /\ wk[1].hSync.post = "ok"
           /\ wk[w].consumed[i] = wk[1].hSync.data
    /\ (wk[1].hSync.produce \notin {None, "Passed"} \/ wk[1].hSync.post = "err")
         => \A w \in Workers : wk[w].consumed = <<>>

\* Every worker has run the consume body with the data of the primary one.
C7_Witness ==
    /\ wk[1].hSync.data = "d2"
    /\ \A w \in Workers : wk[w].consumed = <<"d2">>

(***************************************************************************)
(* Claims about interrupts during the run                                  *)
(***************************************************************************)
\* Worker w takes a spec in this step: WillRun is called for an It.
TakesSpec(w) ==
    \E i \in 1 .. Len(NewEvents(wk[w], wk'[w])) :
      /\ NewEvents(wk[w], wk'[w])[i].e = "WillRun"
      /\ NewEvents(wk[w], wk'[w])[i].r.LeafNodeType = "It"

\* Worker w starts a further attempt of its spec in this step.
StartsFurtherAttempt(w) ==
    /\ wk[w].pc = "node" /\ wk[w].ctx \in {"setup", "cleanup"}
    /\ wk'[w].cur.NumAttempts > wk[w].cur.NumAttempts

RunsSetupOrCleanup(s) == s.pc = "node" /\ s.ctx \in {"setup", "cleanup"}

\* C11: once the interrupt handler reports Interrupted, the worker starts
\* no further attempt of the spec in progress, and every spec it takes
\* afterwards is marked Skip and has none of its setup, It or cleanup
\* bodies run.
C11_InterruptStopsRetriesAndSpecs ==
    /\ [](\A w \in Active : wk[w].spec.skip => ~RunsSetupOrCleanup(wk[w]))
    /\ [][\A w \in Active :
            Status(w).Interrupted =>
              /\ ~StartsFurtherAttempt(w)
              /\ TakesSpec(w) =>
                   /\ wk'[w].spec.skip
                   /\ ~RunsSetupOrCleanup(wk'[w])
                   /\ ReportAfterStep(w).hBodies = 0]_vars

\* An interrupted attempt that did not pass was the last one although
\* attempts remained.
C11_Witness ==
    /\ RunSpecReturned(1)
    /\ Status(1).Interrupted
    /\ wk[1].cur.State = "Failed"
    /\ wk[1].cur.NumAttempts < wk[1].maxAttempts

(***************************************************************************)
(* Claims about the suite hooks                                            *)
(***************************************************************************)
\* The calls of runSuiteNode worker state s has made for a hook of the
\* family, each announced to the reporter by WillRun.
HookRuns(s, family) ==
    Len(SelectSeq(s.events,
                  LAMBDA ev : ev.e = "WillRun" /\ ev.r.LeafNodeType \in family))

\* C12: in one run the before-suite hook and the after-suite hook are each
\* run at most once, neither is run when no spec will be run, and the
\* before-suite hook is not run when the handler reports Interrupted at the
\* moment the hook would start.
C12_SuiteHooksOnce ==
    /\ [](\A w \in Active :
            /\ HookRuns(wk[w], BeforeSuiteFamily) <= 1
            /\ HookRuns(wk[w], AfterSuiteFamily) <= 1
            /\ CountWithoutSkip(specs) = 0 =>
                 /\ HookRuns(wk[w], BeforeSuiteFamily) = 0
                 /\ HookRuns(wk[w], AfterSuiteFamily) = 0)
    /\ [][\A w \in Active :
            \/ HookRuns(wk'[w], BeforeSuiteFamily) = HookRuns(wk[w], BeforeSuiteFamily)
            \/ wk[w].pc = "start" /\ ~Status(w).Interrupted]_vars

\* A run has ended in which both hooks were run once.
C12_Witness ==
    /\ wk[1].pc = "done"
    /\ HookRuns(wk[1], BeforeSuiteFamily) = 1
    /\ HookRuns(wk[1], AfterSuiteFamily) = 1

\* A run was interrupted before it started and has ended: the registered
\* before-suite hook was left out, the after-suite hook was run.
C12_WitnessInterrupted ==
    /\ wk[1].pc = "done"
    /\ ~IsZero(FirstNodeWithType(suiteNodes, BeforeSuiteFamily))
    /\ CountWithoutSkip(specs) > 0
    /\ HookRuns(wk[1], BeforeSuiteFamily) = 0
    /\ HookRuns(wk[1], AfterSuiteFamily) = 1

SasReports(w) ==
    SelectSeq(Reports(w), LAMBDA r : r.LeafNodeType = "SynchronizedAfterSuite")

\* C13: every worker runs the all-nodes body of SynchronizedAfterSuite; the
\* primary-only body is run only on the primary worker and, in a parallel
\* run, only after its wait for the other workers has returned without
\* error; the hook's recorded state and failure are those of the primary-
\* only body only when the all-nodes stage was Passed, and otherwise remain
\* those of the all-nodes stage.
C13_SynchronizedAfterSuite ==
    \A w \in Active :
      LET h == wk[w].hAfter
      IN  /\ wk[w].pc = "done" => h.all # NoResult
          /\ h.final # NoResult => w = 1 /\ (Parallel => h.wait = "ok")
          /\ h.wait = "err" => h.final = NoResult
          /\ \A i \in 1 .. Len(SasReports(w)) :
               LET r == SasReports(w)[i]
               IN  /\ h.all.state # "Passed" =>
                        r.State = h.all.state /\ r.Failure = h.all.failure
                   /\ (h.all.state = "Passed" /\ h.final # NoResult) =>
                        r.State = h.final.state /\ r.Failure = h.final.failure

\* All workers are done; the all-nodes stage of the primary worker passed,
\* its wait returned, and its primary-only body failed, which is recorded.
C13_Witness ==
    /\ \A w \in Workers : wk[w].pc = "done" /\ wk[w].hAfter.all # NoResult
    /\ wk[1].hAfter.all.state = "Passed"
    /\ wk[1].hAfter.wait = "ok"
    /\ wk[1].hAfter.final.state = "Failed"
    /\ SasReports(1)[1].State = "Failed"

(***************************************************************************)
(* Claims about the report hooks                                           *)
(***************************************************************************)
RunsReportHook(s) == s.pc = "node" /\ s.ctx \in {"rae", "ras"}

\* C14: a ReportAfterEach or ReportAfterSuite hook is never interrupted:
\* whatever the interrupt status before or during the hook, runNode returns
\* the outcome of the hook's body and never Interrupted, and the interrupt
\* placeholder message is set before the body starts and cleared after it
\* ends.
C14_ReportHooksNotInterrupted ==
    /\ [](\A w \in Active : wk[w].placeholder <=> RunsReportHook(wk[w]))
    /\ [][\A w \in Active :
            (RunsReportHook(wk[w]) /\ wk'[w] # wk[w])
              => /\ ReportAfterStep(w).hLast # NoResult
                 /\ ReportAfterStep(w).hLast.state # "Interrupted"]_vars

\* A run that was interrupted has ended with a ReportAfterSuite hook that
\* passed, and the placeholder message is cleared.
C14_Witness ==
    /\ wk[1].pc = "done"
    /\ ~wk[1].placeholder
    /\ wk[1].interruptStatus.Interrupted
    /\ \E i \in 1 .. Len(Reports(1)) :
         /\ Reports(1)[i].LeafNodeType = "ReportAfterSuite"
         /\ Reports(1)[i].hLast.state = "Passed"

(***************************************************************************)
(* Claims about the spec loop                                              *)
(***************************************************************************)
TakenBy(w) == {wk[w].hTaken[i] : i \in 1 .. Len(wk[w].hTaken)}

\* C15: with the workers drawing spec indices from one shared counter that
\* serializes its calls, each spec index is taken by at most one worker and
\* at most once; and when every worker's spec loop has run until it
\* received an index >= the number of specs, every spec index was taken by
\* exactly one worker.
C15_EachIndexTakenOnce ==
    /\ \A w \in Workers : Cardinality(TakenBy(w)) = Len(wk[w].hTaken)
    /\ \A v, w \in Workers : v # w => TakenBy(v) \cap TakenBy(w) = {}
    /\ (\A w \in Workers : wk[w].hLoop = "exhausted")
         => \A i \in 0 .. Len(specs) - 1 :
              Cardinality({w \in Workers : i \in TakenBy(w)}) = 1

\* Two specs were shared between two workers, each loop ran to its end.
C15_Witness ==
    /\ \A w \in Workers : wk[w].hLoop = "exhausted"
    /\ Len(specs) = 2
    /\ wk[1].hTaken = <<1>>
    /\ \E w \in Workers \ {1} : wk[w].hTaken = <<0>>

HasEvent(s, e) == \E i \in 1 .. Len(s.events) : s.events[i].e = e
HasReason(s, reason) ==
    \E i \in 1 .. Len(s.report.SpecialSuiteFailureReasons) :
      s.report.SpecialSuiteFailureReasons[i] = reason

\* C16: when the next-index call returns a communication error, the worker
\* takes no further spec, a special suite failure reason naming the error
\* is appended to the report, and the run returns success = false; the
\* after-suite hook and the end-of-suite reporting still happen.
C16_IterationError ==
    /\ [](\A w \in Active :
            wk[w].hLoop = "error" =>
              /\ HasReason(wk[w], "failed to iterate over specs")
              /\ ~wk[w].report.SuiteSucceeded
              /\ wk[w].pc = "done" =>
                   /\ ~wk[w].success
                   /\ HasEvent(wk[w], "SuiteDidEnd")
                   /\ HasEvent(wk[w], "PostSuiteDidEnd")
                   /\ (AfterSuiteRegistered /\ wk[w].numSpecsThatWillBeRun > 0)
                        => AfterSuiteReported(w))
    /\ [][\A w \in Active :
            wk[w].hLoop = "error" => wk'[w].hTaken = wk[w].hTaken]_vars

\* The next-index call failed after one spec had passed; the after-suite
\* hook was run and passed, the run has ended without success.
C16_Witness ==
    /\ wk[1].pc = "done"
    /\ wk[1].hLoop = "error"
    /\ wk[1].hTaken = <<0>>
    /\ AfterSuiteReported(1)
    /\ \A i \in 1 .. Len(Reports(1)) : ~IsFailure(Reports(1)[i])
    /\ ~wk[1].success

\* Worker w has observed an interrupt in its spec loop: runNode returned
\* Interrupted for a node of a spec.
ObservedInterruptInLoop(w) ==
    \E i \in 1 .. Len(Reports(w)) :
      Reports(w)[i].LeafNodeType = "It" /\ Reports(w)[i].State = "Interrupted"

\* C17: in a parallel run a worker that has observed an interrupt during
\* its spec loop posts an abort to the coordination service, whether or not
\* FailFast is configured (at the latest by the time its run has ended).
C17_InterruptBroadcastsAbort ==
    \A w \in Active :
      (Parallel /\ wk[w].pc = "done" /\ ObservedInterruptInLoop(w))
        => HasEvent(wk[w], "PostAbort")

(***************************************************************************)
(* Claims about the order of the nodes of an attempt                       *)
(***************************************************************************)
Rank(t) ==
    CASE t = "BeforeEach" -> 1
      [] t = "JustBeforeEach" -> 2
      [] t = "It" -> 3
      [] t = "JustAfterEach" -> 4
      [] t = "AfterEach" -> 5

\* Node a is to run before node b: by type, and within a type by ascending
\* level for setup and by descending level for cleanup.
Precedes(a, b) ==
    \/ Rank(a.type) < Rank(b.type)
    \/ /\ a.type = b.type
       /\ IF a.type \in SetupTypes THEN a.level < b.level ELSE a.level > b.level

\* The setup, It and cleanup nodes started in worker w's current attempt.
AttemptRan(w) ==
    SelectSeq(wk[w].ran, LAMBDA n : n.type \in SetupTypes \cup CleanupTypes)
SpecNodes(w, ts) ==
    {wk[w].spec.nodes[i] : i \in {j \in 1 .. Len(wk[w].spec.nodes) :
                                    wk[w].spec.nodes[j].type \in ts}}
HasRun(w, n) == \E i \in 1 .. Len(AttemptRan(w)) : AttemptRan(w)[i] = n

\* C19: within one attempt the BeforeEach nodes run by ascending level,
\* then the JustBeforeEach nodes by ascending level, then the It, and none
\* of these runs after one of them returned a state other than Passed;
\* cleanup then runs the JustAfterEach nodes by descending level followed
\* by the AfterEach nodes by descending level, and a cleanup outcome other
\* than Passed does not stop the remaining cleanup nodes.
C19_OrderWithinAttempt ==
    /\ [](\A w \in Active :
            /\ \A i, j \in 1 .. Len(AttemptRan(w)) :
                 i < j => Precedes(AttemptRan(w)[i], AttemptRan(w)[j])
            /\ \A j \in 1 .. Len(AttemptRan(w)) :
                 AttemptRan(w)[j].type \in SetupTypes =>
                   \A m \in SpecNodes(w, SetupTypes) :
                     Precedes(m, AttemptRan(w)[j]) => HasRun(w, m)
            /\ (RunSpecReturned(w) /\ wk[w].hAttempts # <<>>) =>
                 \A m \in SpecNodes(w, CleanupTypes) :
                   (\E j \in 1 .. Len(AttemptRan(w)) :
                      /\ AttemptRan(w)[j].type \in SetupTypes
                      /\ m.level <= AttemptRan(w)[j].level)
                     => HasRun(w, m))
    /\ [][\A w \in Active :
            (/\ wk[w].pc = "node" /\ wk[w].ctx = "setup"
             /\ wk'[w] # wk[w]
             /\ ReportAfterStep(w).hLast.state # "Passed"
             /\ wk'[w].pc = "node" /\ wk'[w].ctx = "setup")
              => wk'[w].attempt > wk[w].attempt]_vars

\* An attempt of the nested spec has run all its nodes in order although
\* the first cleanup node failed.
C19_Witness ==
    /\ RunSpecReturned(1)
    /\ [i \in 1 .. Len(AttemptRan(1)) |-> AttemptRan(1)[i].loc]
         = <<"be0", "be1", "jbe0", "it", "jae1", "ae2", "ae0">>
    /\ wk[1].cur.State = "Failed"
    /\ wk[1].cur.Failure.nodeType = "JustAfterEach"

(***************************************************************************)
(* Claims about what the reporter and the coordination service are told    *)
(***************************************************************************)
ReporterCalls == {"SuiteWillBegin", "WillRun", "DidRun", "SuiteDidEnd"}
ReporterEvents(s) == SelectSeq(s.events, LAMBDA ev : ev.e \in ReporterCalls)
EventsNamed(s, e) == SelectSeq(s.events, LAMBDA ev : ev.e = e)
Positions(s, e) == {i \in 1 .. Len(s.events) : s.events[i].e = e}

\* The reporter's calls so far are SuiteWillBegin, then pairs of WillRun
\* and DidRun about the same leaf node, then, only once the run is over,
\* SuiteDidEnd.
ReporterWellFormed(s) ==
    LET R == ReporterEvents(s)
    IN  /\ s.pc = "start" => s.events = <<>>
        /\ s.pc # "start" => R # <<>>
        /\ \A i \in 1 .. Len(R) :
             /\ (R[i].e = "SuiteWillBegin") <=> (i = 1)
             /\ R[i].e = "SuiteDidEnd" => i = Len(R) /\ i % 2 = 0 /\ s.pc = "done"
             /\ R[i].e = "WillRun" => i % 2 = 0
             /\ R[i].e = "DidRun" =>
                  /\ i % 2 = 1
                  /\ R[i - 1].e = "WillRun"
                  /\ R[i - 1].r.LeafNodeType = R[i].r.LeafNodeType
                  /\ R[i - 1].r.LeafNodeLocation = R[i].r.LeafNodeLocation
        /\ s.pc = "done" => R[Len(R)].e = "SuiteDidEnd"

\* One WillRun per spec taken, in the order taken, skipped specs included,
\* and at most one per suite-level hook.
OnePairPerNode(s) ==
    LET W == EventsNamed(s, "WillRun")
        its == SelectSeq(W, LAMBDA ev : ev.r.LeafNodeType = "It")
    IN  /\ [i \in 1 .. Len(its) |-> its[i].r.LeafNodeLocation]
             = [i \in 1 .. Len(s.hTaken) |->
                  FirstNodeWithType(specs[s.hTaken[i] + 1].nodes, {"It"}).loc]
        /\ \A i, j \in 1 .. Len(W) :
             (/\ i # j
              /\ W[i].r.LeafNodeType = W[j].r.LeafNodeType
              /\ W[i].r.LeafNodeLocation = W[j].r.LeafNodeLocation)
               => W[i].r.LeafNodeType = "It"

\* What the coordination service is told, relative to the reporter.
PostsWellFormed(s) ==
    IF ~Parallel
      THEN \A i \in 1 .. Len(s.events) :
             s.events[i].e \notin {"PostSuiteWillBegin", "PostDidRun", "PostSuiteDidEnd"}
      ELSE /\ \A i \in Positions(s, "DidRun") :
                /\ i < Len(s.events)
                /\ s.events[i + 1] = [e |-> "PostDidRun", r |-> s.events[i].r]
           /\ \A i \in Positions(s, "PostDidRun") :
                /\ s.events[i - 1].e = "DidRun"
                /\ \E j \in Positions(s, "PostSuiteWillBegin") : j < i
                /\ \A j \in Positions(s, "PostSuiteDidEnd") : i < j
           /\ s.pc # "start" => Len(EventsNamed(s, "PostSuiteWillBegin")) = 1
           /\ s.pc = "done" => Len(EventsNamed(s, "PostSuiteDidEnd")) = 1

\* C21: the reporter sees SuiteWillBegin exactly once and first,
\* SuiteDidEnd exactly once and last, and between them WillRun and DidRun
\* strictly alternating starting with WillRun, one pair per hook or spec
\* taken, skipped specs included; the reports passed to DidRun are the
\* suite report's spec reports in the same order; in a parallel run each
\* DidRun is followed by a PostDidRun of the same report,
\* PostSuiteWillBegin precedes every PostDidRun and PostSuiteDidEnd
\* follows them all.
C21_ReporterEventsWellFormed ==
    \A w \in Active :
      /\ ReporterWellFormed(wk[w])
      /\ OnePairPerNode(wk[w])
      /\ [i \in 1 .. Len(EventsNamed(wk[w], "DidRun")) |->
            EventsNamed(wk[w], "DidRun")[i].r] = Reports(w)
      /\ PostsWellFormed(wk[w])

\* A parallel run is over in which the worker ran both suite hooks, took
\* three specs, one of them pending, and ran the ReportAfterSuite hook.
C21_Witness ==
    /\ Parallel
    /\ wk[1].pc = "done"
    /\ Len(Reports(1)) = 6
    /\ \E i \in 1 .. 6 : Reports(1)[i].State = "Pending"
    /\ \E i \in 1 .. 6 : Reports(1)[i].State = "Failed"

(***************************************************************************)
(* Claims about the deepest nesting level attained                         *)
(***************************************************************************)
SetupRan(w) == SelectSeq(wk[w].ran, LAMBDA n : n.type \in SetupTypes)
CleanupRan(w) == {wk[w].ran[i] : i \in RanOfType(w, CleanupTypes)}
InAttempt(w) == wk[w].pc = "node" /\ wk[w].ctx \in {"setup", "cleanup"}
LastCleanupNode(w) == wk[w].pc = "node" /\ wk[w].ctx = "cleanup" /\ wk[w].todo = <<>>

\* The level of the last setup or subject node started in the attempt, and
\* the greatest level among them.
LastLevel(w) == SetupRan(w)[Len(SetupRan(w))].level
GreatestLevel(w) ==
    CHOOSE l \in {SetupRan(w)[i].level : i \in 1 .. Len(SetupRan(w))} :
      \A i \in 1 .. Len(SetupRan(w)) : SetupRan(w)[i].level <= l

\* In an attempt the level kept is level, the cleanup nodes started have
\* a level within it, and when the last of them is started they are all
\* the cleanup nodes of the spec within it.
CleanupWithin(w, level) ==
    InAttempt(w) =>
      /\ wk[w].deepest = level
      /\ \A n \in CleanupRan(w) : n.level <= level
      /\ LastCleanupNode(w) =>
           CleanupRan(w) = {n \in SpecNodes(w, CleanupTypes) : n.level <= level}

\* C22 as stated: in each attempt deepestNestingLevelAttained is the
\* nesting level of the last BeforeEach, JustBeforeEach or It node
\* executed, and the cleanup nodes run are exactly the JustAfterEach and
\* AfterEach nodes of the spec whose level is at most that level.
C22_DeepestIsLastLevel == \A w \in Active : CleanupWithin(w, LastLevel(w))

\* C22, amended: in each attempt deepestNestingLevelAttained is the
\* greatest nesting level among the BeforeEach, JustBeforeEach and It
\* nodes executed, and the cleanup nodes run are exactly the JustAfterEach
\* and AfterEach nodes of the spec whose level is at most that level.
C22_DeepestIsGreatestLevel == \A w \in Active : CleanupWithin(w, GreatestLevel(w))

\* A JustBeforeEach at level 0 was the last setup node run, after a
\* BeforeEach at level 1, and the cleanup of level 1 was run.
C22_Witness ==
    /\ LastCleanupNode(1)
    /\ [i \in 1 .. Len(wk[1].ran) |-> wk[1].ran[i].loc]
         = <<"be0", "be1", "jbe0", "jae1", "ae0">>
    /\ wk[1].deepest = 1

(***************************************************************************)
(* Claims about the capture of output                                      *)
(***************************************************************************)
CaptureCalls == {"StartInterceptingOutput", "StopInterceptingAndReturnOutput"}
CaptureEvents(s) == SelectSeq(s.events, LAMBDA ev : ev.e \in CaptureCalls)

\* C23: over the whole run the calls of StartInterceptingOutput and
\* StopInterceptingAndReturnOutput strictly alternate, starting with
\* Start; a body is run only while output is being captured, and what an
\* attempt of a spec or a hook captured has been collected, exactly once,
\* when the run is over, on every path.
C23_CaptureAlternates ==
    \A w \in Active :
      LET C == CaptureEvents(wk[w])
      IN  /\ \A i \in 1 .. Len(C) :
               (C[i].e = "StartInterceptingOutput") <=> (i % 2 = 1)
          /\ wk[w].pc = "node" => Len(C) % 2 = 1
          /\ wk[w].pc = "done" => Len(C) % 2 = 0

(***************************************************************************)
(* Claims about the progress of the SynchronizedBeforeSuite handshake      *)
(***************************************************************************)
WaitsForData(w) == w # 1 /\ wk[w].pc = "sbsBlock"
PrimaryHasPosted == wk[1].hSync.post # None

\* C25: in a parallel run, whenever a worker other than the primary one
\* has entered SynchronizedBeforeSuite and waits for the shared data, the
\* primary worker eventually posts success with the data or failure, and
\* the waiting worker eventually stops waiting, whatever the primary's
\* interrupt status when it comes to its own before-suite step.
C25_WaitingWorkerIsAnswered ==
    \A w \in Workers :
      /\ WaitsForData(w) ~> PrimaryHasPosted
      /\ WaitsForData(w) ~> ~WaitsForData(w)

(***************************************************************************)
(* Claims about a failed before-suite hook and about the suite's result    *)
(***************************************************************************)
BeforeSuiteFailed(w) ==
    /\ Reports(w) # <<>>
    /\ Reports(w)[1].LeafNodeType \in BeforeSuiteFamily
    /\ IsFailure(Reports(w)[1])

\* C26: if the report of the before-suite hook has a failure state, the
\* worker does not enter the spec loop: it asks for no spec index, runs no
\* spec body and emits no spec report, not even a Skipped one; the
\* after-suite hook is still run when one is registered, and the run
\* returns success = false.
C26_NoSpecsAfterFailedBeforeSuite ==
    \A w \in Active :
      BeforeSuiteFailed(w) =>
        /\ wk[w].pc # "nextIndex"
        /\ wk[w].hTaken = <<>> /\ wk[w].hLoop = None
        /\ \A i \in 1 .. Len(wk[w].ran) :
             wk[w].ran[i].type \in SuiteNodeTypes
        /\ \A i \in 1 .. Len(wk[w].events) :
             wk[w].events[i].e \in {"WillRun", "DidRun", "PostDidRun"}
               => wk[w].events[i].r.LeafNodeType # "It"
        /\ ~wk[w].report.SuiteSucceeded
        /\ wk[w].pc = "done" =>
             /\ ~wk[w].success
             /\ AfterSuiteRegistered =>
                  /\ AfterSuiteReported(w)
                  /\ \E i \in 1 .. Len(wk[w].ran) :
                       wk[w].ran[i].type \in AfterSuiteFamily

\* A run of two specs with both suite hooks is over: the before-suite hook
\* failed, the after-suite hook passed, no spec was reported.
C26_Witness ==
    /\ wk[1].pc = "done"
    /\ Len(specs) >= 2
    /\ CountWithoutSkip(specs) > 0
    /\ BeforeSuiteFailed(1)
    /\ Len(Reports(1)) = 2
    /\ Reports(1)[2].LeafNodeType \in AfterSuiteFamily
    /\ Reports(1)[2].State = "Passed"
    /\ ~wk[1].success

\* From its assignment at the start of runSpecs on, the success flag never
\* goes from false to true.
SuccessNeverRestored ==
    [][\A w \in Active :
         (wk[w].pc # "start" /\ ~wk[w].report.SuiteSucceeded)
           => ~wk'[w].report.SuiteSucceeded]_vars

\* The run of worker w is over and has returned success = true with
\* nothing against it in its report.
ReturnedSuccessSoundly(w) ==
    /\ wk[w].report.SuiteSucceeded
    /\ \A i \in 1 .. Len(EventsNamed(wk[w], "DidRun")) :
         ~IsFailure(EventsNamed(wk[w], "DidRun")[i].r)
    /\ wk[w].report.SpecialSuiteFailureReasons = <<>>

\* C27 as stated: within runSpecs the success flag, once false, never
\* becomes true again, and the run returns success = true only if no
\* report passed to DidRun has a failure state, no special suite failure
\* reason was recorded and the interrupt handler does not report
\* Interrupted at the end of the run.
C27_SuccessIsSound ==
    /\ SuccessNeverRestored
    /\ [](\A w \in Active :
            (wk[w].pc = "done" /\ wk[w].success) =>
               /\ ReturnedSuccessSoundly(w)
               /\ ~Status(w).Interrupted)

\* C27, amended: as above, but the interrupt handler does not report
\* Interrupted when runSpecs asks it after the after-suite hook; a signal
\* that arrives later, while the ReportAfterSuite hooks are run, leaves
\* the result as it is.
C27_SuccessIsSoundAtLastStatus ==
    /\ SuccessNeverRestored
    /\ [](\A w \in Active :
            (wk[w].pc = "done" /\ wk[w].success) =>
               /\ ReturnedSuccessSoundly(w)
               /\ ~wk[w].interruptStatus.Interrupted)

\* A run with both suite hooks and a ReportAfterSuite hook has returned
\* success = true, and the handler has received a signal since the
\* after-suite hook.
C27_Witness ==
    /\ wk[1].pc = "done"
    /\ wk[1].success
    /\ Len(Reports(1)) >= 5
    /\ Status(1).Interrupted
    /\ ~wk[1].interruptStatus.Interrupted

====
